---------------------------- MODULE Spec2Model ----------------------------
(***************************************************************************)
(* Model of the SQL formatting and highlighting engine of sql_tester_gui: *)
(*   - formatter.py : SQLFormatter (tokenize, merge compounds, format     *)
(*                    tokens, check syntax)                                *)
(*   - sql_tester.py: highlight_sql_tokenize (the classifying lexer) and   *)
(*                    App._format_txt_sql (the caller of the formatter)    *)
(*                                                                         *)
(* A Python str is a sequence of one-character strings.  Str(t) turns     *)
(* such a sequence into a TLA+ string so that the keyword tables can be   *)
(* written as in the source.  List indices keep Python's 0-based values;  *)
(* element k of a Python list is element k+1 of the sequence.             *)
(***************************************************************************)
EXTENDS Integers, Sequences, FiniteSets, TLC

(***************************************************************************)
(* Bounds of the model.                                                    *)
(***************************************************************************)
\* longest generated formatter input, in pieces
MaxLen == 3
\* format_and_check invocations observed in one behaviour
MaxRuns == 2
\* SQLFormatter objects constructed in one behaviour
MaxObjs == 2
\* longest input of the classifying lexer, in characters
MaxLexLen == 4
\* rows of query_templates that imports add, at most
MaxTemplates == 1

(***************************************************************************)
(* Characters and strings.                                                 *)
(***************************************************************************)
LowerLetters == <<"a","b","c","d","e","f","g","h","i","j","k","l","m",
                  "n","o","p","q","r","s","t","u","v","w","x","y","z">>
UpperLetters == <<"A","B","C","D","E","F","G","H","I","J","K","L","M",
                  "N","O","P","Q","R","S","T","U","V","W","X","Y","Z">>

\* str.upper() on one character
UpperChar(c) ==
    IF \E k \in 1..26 : LowerLetters[k] = c
    THEN UpperLetters[CHOOSE k \in 1..26 : LowerLetters[k] = c]
    ELSE c

\* str.upper()
Upper(t) == [k \in 1..Len(t) |-> UpperChar(t[k])]

\* the characters str.split() and str.strip() treat as whitespace
Whitespace == {" ", "\t", "\n", "\r", "\f"}

RECURSIVE Str(_)
Str(t) == IF t = <<>> THEN "" ELSE t[1] \o Str(Tail(t))

RECURSIVE LStrip(_)
LStrip(t) == IF t # <<>> /\ t[1] \in Whitespace THEN LStrip(Tail(t)) ELSE t

RECURSIVE RStrip(_)
RStrip(t) ==
    IF t # <<>> /\ t[Len(t)] \in Whitespace
    THEN RStrip(SubSeq(t, 1, Len(t) - 1))
    ELSE t

Strip(t) == RStrip(LStrip(t))

\* sep.join(parts)
RECURSIVE Join(_, _)
Join(sep, parts) ==
    IF parts = <<>> THEN <<>>
    ELSE IF Len(parts) = 1 THEN parts[1]
    ELSE parts[1] \o sep \o Join(sep, Tail(parts))

\* s * n
RECURSIVE Repeat(_, _)
Repeat(t, n) == IF n <= 0 THEN <<>> ELSE t \o Repeat(t, n - 1)

(***************************************************************************)
(* Keyword tables of SQLFormatter.                                         *)
(***************************************************************************)
KEYWORDS ==
    { "SELECT", "FROM", "WHERE", "GROUP BY", "ORDER BY", "HAVING",
      "INSERT INTO", "VALUES", "UPDATE", "SET", "DELETE",
      "CREATE TABLE", "DROP TABLE", "ALTER TABLE", "TRUNCATE TABLE",
      "PRIMARY KEY", "FOREIGN KEY", "REFERENCES", "CONSTRAINT",
      "IF EXISTS", "NOT NULL", "UNIQUE", "CHECK",
      "JOIN", "LEFT JOIN", "RIGHT JOIN", "INNER JOIN", "OUTER JOIN", "ON",
      "AS", "DISTINCT", "LIMIT", "OFFSET", "UNION", "ALL",
      "GRANT", "REVOKE", "TO", "WITH", "OPTION",
      "COMMIT", "ROLLBACK", "SAVEPOINT", "TRANSACTION", "BEGIN" }

CLAUSE_KEYWORDS ==
    { "SELECT", "FROM", "WHERE", "GROUP BY", "ORDER BY", "HAVING",
      "VALUES", "SET", "INSERT INTO", "UPDATE", "DELETE",
      "CREATE TABLE", "DROP TABLE", "ALTER TABLE", "TRUNCATE TABLE",
      "GRANT", "REVOKE" }

VALID_STARTS ==
    { "SELECT", "INSERT INTO", "UPDATE", "DELETE",
      "CREATE TABLE", "DROP TABLE", "ALTER TABLE", "TRUNCATE TABLE",
      "GRANT", "REVOKE", "COMMIT", "ROLLBACK", "BEGIN" }

\* the privilege words that do not start a clause inside a GRANT/REVOKE list
PrivilegeWords == { "SELECT", "INSERT", "UPDATE", "DELETE", "ALL" }

\* the clauses whose commas break lines
ListClauses == { "SELECT", "INSERT INTO", "VALUES", "CREATE TABLE" }

(***************************************************************************)
(* SQLFormatter._tokenize                                                  *)
(***************************************************************************)
Punctuation == { "(", ")", ",", ";" }

\* PadPunctuation with the character class [(),] (the semicolon left out)
RECURSIVE PadPunctuation_SkipsSemicolon(_)
PadPunctuation_SkipsSemicolon(t) ==
    IF t = <<>> THEN <<>>
    ELSE (IF t[1] \in Punctuation \ {";"} THEN <<" ", t[1], " ">> ELSE <<t[1]>>)
         \o PadPunctuation_SkipsSemicolon(Tail(t))

\* re.sub(r"([(),;])", r" \1 ", sql)
RECURSIVE PadPunctuation(_)
PadPunctuation(t) ==
    IF t = <<>> THEN <<>>
    ELSE (IF t[1] \in Punctuation THEN <<" ", t[1], " ">> ELSE <<t[1]>>)
         \o PadPunctuation(Tail(t))

\* str.split(): the maximal runs of non-whitespace characters
RECURSIVE SplitFrom(_, _, _)
SplitFrom(t, word, acc) ==
    IF t = <<>>
    THEN (IF word = <<>> THEN acc ELSE Append(acc, word))
    ELSE IF t[1] \in Whitespace
         THEN SplitFrom(Tail(t), <<>>,
                        IF word = <<>> THEN acc ELSE Append(acc, word))
         ELSE SplitFrom(Tail(t), Append(word, t[1]), acc)

Split(t) == SplitFrom(t, <<>>, <<>>)

Tokenize(sql) == Split(PadPunctuation(sql))

(***************************************************************************)
(* SQLFormatter._merge_compounds                                           *)
(***************************************************************************)
\* MergeAt with the two-word test guarded like the three-word one
\* (i + 2 < len(tokens)): a phrase that ends the input is not merged.
MergeAt_PairNeedsThird(toks, i0) ==
    LET t0 == Upper(toks[i0 + 1])
        t2 == t0 \o <<" ">> \o Upper(toks[i0 + 2])
    IN  IF i0 + 2 < Len(toks) /\ Str(t2) \in KEYWORDS
        THEN [tok |-> t2, adv |-> 2]
        ELSE [tok |-> IF Str(t0) \in KEYWORDS THEN t0 ELSE toks[i0 + 1],
              adv |-> 1]

\* MergeAt with the cursor advanced by three after a two-word phrase
MergeAt_PairAdvancesThree(toks, i0) ==
    LET t0 == Upper(toks[i0 + 1])
        t3 == t0 \o <<" ">> \o Upper(toks[i0 + 2])
                 \o <<" ">> \o Upper(toks[i0 + 3])
        t2 == t0 \o <<" ">> \o Upper(toks[i0 + 2])
    IN  IF i0 + 2 < Len(toks) /\ Str(t3) \in KEYWORDS
        THEN [tok |-> t3, adv |-> 3]
        ELSE IF i0 + 1 < Len(toks) /\ Str(t2) \in KEYWORDS
        THEN [tok |-> t2, adv |-> 3]
        ELSE [tok |-> IF Str(t0) \in KEYWORDS THEN t0 ELSE toks[i0 + 1],
              adv |-> 1]

\* One iteration of the while loop at cursor i0 (0-based): the token that
\* is appended to merged and the amount the cursor advances.
MergeAt(toks, i0) ==
    LET t0 == Upper(toks[i0 + 1])
        t3 == t0 \o <<" ">> \o Upper(toks[i0 + 2])
                 \o <<" ">> \o Upper(toks[i0 + 3])
        t2 == t0 \o <<" ">> \o Upper(toks[i0 + 2])
    IN  IF i0 + 2 < Len(toks) /\ Str(t3) \in KEYWORDS
        THEN [tok |-> t3, adv |-> 3]
        ELSE IF i0 + 1 < Len(toks) /\ Str(t2) \in KEYWORDS
        THEN [tok |-> t2, adv |-> 2]
        ELSE [tok |-> IF Str(t0) \in KEYWORDS THEN t0 ELSE toks[i0 + 1],
              adv |-> 1]

RECURSIVE MergeFrom(_, _, _)
MergeFrom(toks, i0, acc) ==
    IF i0 < Len(toks)
    THEN MergeFrom(toks, i0 + MergeAt(toks, i0).adv,
                   Append(acc, MergeAt(toks, i0).tok))
    ELSE acc

MergeCompounds(toks) == MergeFrom(toks, 0, <<>>)


(***************************************************************************)
(* Inputs.  A generated input is the concatenation of at most MaxLen       *)
(* pieces; the scenario inputs are the examples of the documentation.     *)
(***************************************************************************)
Pieces ==
    { <<"s","e","l","e","c","t"," ">>,
      <<"g","r","a","n","t"," ">>,
      <<"v","a","l","u","e","s"," ">>,
      <<"g","r","o","u","p"," ">>,
      <<"b","y"," ">>,
      <<"a"," ">>,
      <<",">>, <<"(">>, <<")">>, <<";">> }

RECURSIVE Concat(_)
Concat(parts) == IF parts = <<>> THEN <<>> ELSE parts[1] \o Concat(Tail(parts))

Generated ==
    { Concat(ps) : ps \in UNION { [1..n -> Pieces] : n \in 0..MaxLen } }

\* select id,name from t where id=1;
Scenario1 ==
    <<"s","e","l","e","c","t"," ","i","d",",","n","a","m","e"," ",
      "f","r","o","m"," ","t"," ","w","h","e","r","e"," ","i","d","=","1",";">>
\* GRANT SELECT, INSERT ON posts TO bob;
Scenario2 ==
    <<"G","R","A","N","T"," ","S","E","L","E","C","T",","," ",
      "I","N","S","E","R","T"," ","O","N"," ","p","o","s","t","s"," ",
      "T","O"," ","b","o","b",";">>
\* CREATE TABLE t (id INT;
Scenario3 ==
    <<"C","R","E","A","T","E"," ","T","A","B","L","E"," ","t"," ",
      "(","i","d"," ","I","N","T",";">>
\* foo bar;
Scenario4 == <<"f","o","o"," ","b","a","r",";">>
\* DROP TABLE IF EXISTS t; SELECT 1;
Scenario5 ==
    <<"D","R","O","P"," ","T","A","B","L","E"," ","I","F"," ",
      "E","X","I","S","T","S"," ","t",";"," ","S","E","L","E","C","T"," ","1",";">>
\* insert into t values(1),(2);
InsertTwoRows ==
    <<"i","n","s","e","r","t"," ","i","n","t","o"," ","t"," ",
      "v","a","l","u","e","s","(","1",")",",","(","2",")",";">>
\* create table t(a check(a),b,c);
CreateWithCheck ==
    <<"c","r","e","a","t","e"," ","t","a","b","l","e"," ","t","(",
      "a"," ","c","h","e","c","k","(","a",")",",","b",",","c",")",";">>
\* select a grant select, insert on t to bob;
SelectThenGrant ==
    <<"s","e","l","e","c","t"," ","a"," ","g","r","a","n","t"," ",
      "s","e","l","e","c","t",","," ","i","n","s","e","r","t"," ",
      "o","n"," ","t"," ","t","o"," ","b","o","b",";">>

\* select 'a,b';
SelectLiteral ==
    <<"s","e","l","e","c","t"," ","'","a",",","b","'",";">>

\* revoke all from bob; grant update to ann
RevokeThenGrant ==
    <<"r","e","v","o","k","e"," ","a","l","l"," ","f","r","o","m"," ","b",
      "o","b",";"," ","g","r","a","n","t"," ","u","p","d","a","t","e"," ",
      "t","o"," ","a","n","n">>

\* values ((1; 2))
SemicolonInParens ==
    <<"v","a","l","u","e","s"," ","(","(","1",";"," ","2",")",")">>

Scenarios ==
    { Scenario1, Scenario2, Scenario3, Scenario4, Scenario5,
      InsertTwoRows, CreateWithCheck, SelectThenGrant, SelectLiteral,
      RevokeThenGrant, SemicolonInParens }

Inputs == Generated \cup Scenarios

(***************************************************************************)
(* State.                                                                  *)
(***************************************************************************)
VARIABLES
    original_sql,        \* SQLFormatter.original_sql
    formatted_sql,       \* SQLFormatter.formatted_sql
    errors,              \* SQLFormatter.errors
    tokens,              \* format_and_check: tokens
    merged,              \* format_and_check: merged (being built, then read)
    i,                   \* cursor of the loop in progress (0-based)
    lines,               \* _format_tokens: lines
    current,             \* _format_tokens: current
    indent_level,        \* _format_tokens: indent_level
    inside_list,         \* _format_tokens: inside_list
    in_grant_priv_list,  \* _format_tokens: in_grant_priv_list
    pc,                  \* position of the call in progress
    obj,                 \* number of the SQLFormatter object in use
    results,             \* what each finished format_and_check call returned
    s,                   \* highlight_sql_tokenize: s
    pos,                 \* highlight_sql_tokenize: pos
    out,                 \* highlight_sql_tokenize: out
    lpc,                 \* position of the highlight_sql_tokenize call
    other,               \* the SQLFormatter and call of the suspended thread
    ref,                 \* what the call that ran alone returned
    files,               \* the directory entries that exist on disk
    db_dir,              \* app_settings row db_dir of settings.db
    last_db,             \* app_settings row last_db of settings.db
    db_nodes,            \* App.db_nodes: the paths of the DB tree
    active_db,           \* App.active_db
    qt_rows,             \* committed rows of query_templates in templates.db
    pending,             \* rows inserted by the open connection, uncommitted
    shown,               \* what all_query_templates returned last
    apc,                 \* position of the application
    tables,              \* the database files that hold a table
    open_dbs,            \* the expanded database nodes of the DB tree
    open_tables,         \* the databases whose table node is expanded
    reload_error         \* the exception that ended the last _reload_db_tree

fmtVars == << original_sql, formatted_sql, errors, tokens, merged, i, lines,
              current, indent_level, inside_list, in_grant_priv_list, pc, obj,
              results >>

lexVars == << s, pos, out, lpc >>

concVars == << other, ref >>

treeVars == << tables, open_dbs, open_tables, reload_error >>

appVars == << files, db_dir, last_db, db_nodes, active_db, qt_rows, pending,
             shown, apc, treeVars >>

vars == << fmtVars, lexVars, concVars, appVars >>

\* the application is not part of the behaviour
AppOff ==
    /\ files = {}
    /\ db_dir = <<>>
    /\ last_db = <<>>
    /\ db_nodes = {}
    /\ active_db = <<>>
    /\ qt_rows = 0
    /\ pending = 0
    /\ shown = <<>>
    /\ apc = "off"
    /\ tables = {}
    /\ open_dbs = {}
    /\ open_tables = {}
    /\ reload_error = <<>>

fmtLocals == << lines, current, indent_level, inside_list, in_grant_priv_list >>

\* SQLFormatter(sql): the state after construction
Init ==
    /\ \E sql \in Inputs : original_sql = Strip(sql)
    /\ formatted_sql = <<>>
    /\ errors = <<>>
    /\ tokens = <<>>
    /\ merged = <<>>
    /\ i = 0
    /\ lines = <<>>
    /\ current = <<>>
    /\ indent_level = 0
    /\ inside_list = FALSE
    /\ in_grant_priv_list = FALSE
    /\ pc = "idle"
    /\ obj = 1
    /\ results = <<>>
    /\ s = <<>>
    /\ pos = 0
    /\ out = <<>>
    /\ lpc = "off"
    /\ other = <<>>
    /\ ref = <<>>
    /\ AppOff

(***************************************************************************)
(* format_and_check, up to the end of _merge_compounds.                    *)
(***************************************************************************)
\* A call of format_and_check on the object in use: _tokenize, then the
\* entry of _merge_compounds.
Call ==
    /\ pc \in {"idle", "done"}
    /\ Len(results) < MaxRuns
    /\ tokens' = Tokenize(original_sql)
    /\ merged' = <<>>
    /\ i' = 0
    /\ pc' = "merge"
    /\ UNCHANGED << original_sql, formatted_sql, errors, fmtLocals, obj, results >>

\* one iteration of the while loop of _merge_compounds
MergeStep ==
    /\ pc = "merge"
    /\ i < Len(tokens)
    /\ merged' = Append(merged, MergeAt(tokens, i).tok)
    /\ i' = i + MergeAt(tokens, i).adv
    /\ UNCHANGED << original_sql, formatted_sql, errors, tokens, fmtLocals,
                    pc, obj, results >>

\* _merge_compounds returns; _format_tokens initialises its locals
MergeDone ==
    /\ pc = "merge"
    /\ ~(i < Len(tokens))
    /\ pc' = "format"
    /\ i' = 0
    /\ lines' = <<>>
    /\ current' = <<>>
    /\ indent_level' = 0
    /\ inside_list' = FALSE
    /\ in_grant_priv_list' = FALSE
    /\ UNCHANGED << original_sql, formatted_sql, errors, tokens, merged, obj,
                    results >>

(***************************************************************************)
(* SQLFormatter._format_tokens                                             *)
(***************************************************************************)
\* indent = "    "
Indent == <<" ", " ", " ", " ">>

\* current[-1] = current[-1] + c   (callers guard it with: if current)
AttachToLast(cur, c) == [cur EXCEPT ![Len(cur)] = @ \o <<c>>]

\* FlushLine without the reset of the pending line (current = [] left out)
FlushLine_KeepsCurrent(ls, cur, lvl) ==
    IF cur # <<>>
    THEN LET line == Strip(Join(<<" ">>, cur))
         IN  [lines   |-> IF line # <<>>
                          THEN Append(ls, Repeat(Indent, lvl) \o line)
                          ELSE ls,
              current |-> cur]
    ELSE [lines |-> ls, current |-> cur]

\* flush_line() with force = False, on lines ls, pending line cur and indent
\* level lvl: the lines and the pending line afterwards.
FlushLine(ls, cur, lvl) ==
    IF cur # <<>>
    THEN LET line == Strip(Join(<<" ">>, cur))
         IN  [lines   |-> IF line # <<>>
                          THEN Append(ls, Repeat(Indent, lvl) \o line)
                          ELSE ls,
              current |-> <<>>]
    ELSE [lines |-> ls, current |-> cur]

\* whether tok takes the clause branch (formatter.py:134-136)
IsClauseTok(tok) ==
    /\ Str(tok) \in CLAUSE_KEYWORDS
    /\ ~(in_grant_priv_list /\ Str(tok) \in PrivilegeWords)

\* ClauseTok without the flush of the pending line
ClauseTok_NoFlush(tok) ==
    /\ lines' = lines
    /\ current' = Append(current, tok)
    /\ inside_list' = IF Str(tok) \in ListClauses THEN TRUE ELSE inside_list
    /\ in_grant_priv_list' = (Str(tok) \in {"GRANT", "REVOKE"})
    /\ pc' = "format"
    /\ UNCHANGED indent_level

\* the clause branch
ClauseTok(tok) ==
    LET f == FlushLine(lines, current, indent_level)
    IN  /\ lines' = f.lines
        /\ current' = Append(f.current, tok)
        /\ inside_list' = IF Str(tok) \in ListClauses THEN TRUE ELSE inside_list
        /\ in_grant_priv_list' = (Str(tok) \in {"GRANT", "REVOKE"})
        /\ pc' = "format"
        /\ UNCHANGED indent_level

\* CommaTok without the guard on current: current[-1] raises IndexError
\* when the pending line is empty
CommaTok_Unguarded ==
    LET c1 == AttachToLast(current, ",")
        f  == FlushLine(lines, c1, indent_level)
    IN  /\ IF current = <<>>
           THEN pc' = "raised" /\ UNCHANGED << lines, current >>
           ELSE /\ pc' = "format"
                /\ IF inside_list
                   THEN lines' = f.lines /\ current' = f.current
                   ELSE lines' = lines /\ current' = c1
        /\ UNCHANGED << indent_level, inside_list, in_grant_priv_list >>

\* CommaTok without the flush of list contexts
CommaTok_NeverBreaks ==
    /\ current' = IF current # <<>> THEN AttachToLast(current, ",") ELSE current
    /\ pc' = "format"
    /\ UNCHANGED << lines, indent_level, inside_list, in_grant_priv_list >>

\* the branch of ","
CommaTok ==
    LET c1 == IF current # <<>> THEN AttachToLast(current, ",") ELSE current
        f  == FlushLine(lines, c1, indent_level)
    IN  /\ IF inside_list
           THEN lines' = f.lines /\ current' = f.current
           ELSE lines' = lines /\ current' = c1
        /\ pc' = "format"
        /\ UNCHANGED << indent_level, inside_list, in_grant_priv_list >>

\* OpenParenTok with the increment before the flush
OpenParenTok_IndentFirst ==
    LET f == FlushLine(lines, Append(current, <<"(">>), indent_level + 1)
    IN  /\ lines' = f.lines
        /\ current' = f.current
        /\ indent_level' = indent_level + 1
        /\ pc' = "format"
        /\ UNCHANGED << inside_list, in_grant_priv_list >>

\* the branch of "("
OpenParenTok ==
    LET f == FlushLine(lines, Append(current, <<"(">>), indent_level)
    IN  /\ lines' = f.lines
        /\ current' = f.current
        /\ indent_level' = indent_level + 1
        /\ pc' = "format"
        /\ UNCHANGED << inside_list, in_grant_priv_list >>

\* CloseParenTok with ")" printed before the decrement
CloseParenTok_NoDedent ==
    LET f1   == FlushLine(lines, current, indent_level)
        lvl1 == IF indent_level - 1 > 0 THEN indent_level - 1 ELSE 0
        f2   == FlushLine(f1.lines, Append(f1.current, <<")">>), indent_level)
    IN  /\ lines' = f2.lines
        /\ current' = f2.current
        /\ indent_level' = lvl1
        /\ inside_list' = FALSE
        /\ pc' = "format"
        /\ UNCHANGED in_grant_priv_list

\* the branch of ")"
CloseParenTok ==
    LET f1   == FlushLine(lines, current, indent_level)
        lvl1 == IF indent_level - 1 > 0 THEN indent_level - 1 ELSE 0
        f2   == FlushLine(f1.lines, Append(f1.current, <<")">>), lvl1)
    IN  /\ lines' = f2.lines
        /\ current' = f2.current
        /\ indent_level' = lvl1
        /\ inside_list' = FALSE
        /\ pc' = "format"
        /\ UNCHANGED in_grant_priv_list

\* SemicolonTok without the reset of indent_level
SemicolonTok_KeepsIndent ==
    LET f  == FlushLine(lines, AttachToLast(current, ";"), indent_level)
        l1 == IF current # <<>> THEN f.lines
              ELSE IF lines # <<>>
                   THEN [lines EXCEPT ![Len(lines)] = RStrip(@) \o <<";">>]
                   ELSE lines
    IN  /\ lines' = Append(l1, <<>>)
        /\ current' = IF current # <<>> THEN f.current ELSE current
        /\ inside_list' = FALSE
        /\ in_grant_priv_list' = FALSE
        /\ pc' = "format"
        /\ UNCHANGED indent_level

\* the branch of ";"
SemicolonTok ==
    LET f  == FlushLine(lines, AttachToLast(current, ";"), indent_level)
        l1 == IF current # <<>> THEN f.lines
              ELSE IF lines # <<>>
                   THEN [lines EXCEPT ![Len(lines)] = RStrip(@) \o <<";">>]
                   ELSE lines
    IN  /\ lines' = Append(l1, <<>>)
        /\ current' = IF current # <<>> THEN f.current ELSE current
        /\ indent_level' = 0
        /\ inside_list' = FALSE
        /\ in_grant_priv_list' = FALSE
        /\ pc' = "format"

\* OtherTok without the end of the privilege list at ON and TO
OtherTok_KeepsPrivList(tok) ==
    /\ current' = Append(current, tok)
    /\ in_grant_priv_list' = in_grant_priv_list
    /\ pc' = "format"
    /\ UNCHANGED << lines, indent_level, inside_list >>

\* the else branch: any other token
OtherTok(tok) ==
    /\ current' = Append(current, tok)
    /\ in_grant_priv_list' =
          IF in_grant_priv_list /\ Str(tok) \in {"ON", "TO"}
          THEN FALSE
          ELSE in_grant_priv_list
    /\ pc' = "format"
    /\ UNCHANGED << lines, indent_level, inside_list >>

\* the token the loop of _format_tokens is about to process
Tok == merged[i + 1]

\* one iteration of the while loop of _format_tokens
FormatStep ==
    /\ pc = "format"
    /\ i < Len(merged)
    /\ IF IsClauseTok(Tok) THEN ClauseTok(Tok)
       ELSE IF Tok = <<",">> THEN CommaTok
       ELSE IF Tok = <<"(">> THEN OpenParenTok
       ELSE IF Tok = <<")">> THEN CloseParenTok
       ELSE IF Tok = <<";">> THEN SemicolonTok
       ELSE OtherTok(Tok)
    /\ i' = i + 1
    /\ UNCHANGED << original_sql, formatted_sql, errors, tokens, merged, obj,
                    results >>

\* the end of _format_tokens: the final flush_line(), the join and the
\* assignment to self.formatted_sql
FormatFinish ==
    /\ pc = "format"
    /\ ~(i < Len(merged))
    /\ LET f == FlushLine(lines, current, indent_level)
       IN  /\ lines' = f.lines
           /\ current' = f.current
           /\ formatted_sql' = RStrip(Join(<<"\n">>, f.lines))
    /\ pc' = "check"
    /\ UNCHANGED << original_sql, errors, tokens, merged, i, indent_level,
                    inside_list, in_grant_priv_list, obj, results >>

(***************************************************************************)
(* SQLFormatter._check_syntax                                              *)
(***************************************************************************)
\* the loop over enumerate(tokens) from index idx0 with the balance so far:
\* the final balance and the diagnostics appended
\* BalanceScan with the tokens counted from 1 in the diagnostic
RECURSIVE BalanceScan_OneBasedIndex(_, _, _)
BalanceScan_OneBasedIndex(toks, idx0, balance) ==
    IF ~(idx0 < Len(toks))
    THEN [balance |-> balance, errs |-> <<>>]
    ELSE LET t == toks[idx0 + 1]
         IN  IF t = <<"(">>
             THEN BalanceScan_OneBasedIndex(toks, idx0 + 1, balance + 1)
             ELSE IF t = <<")">>
             THEN IF balance - 1 < 0
                  THEN [balance |-> balance - 1,
                        errs |-> << "Unmatched ')' at token "
                                    \o ToString(idx0 + 1) \o "." >>]
                  ELSE BalanceScan_OneBasedIndex(toks, idx0 + 1, balance - 1)
             ELSE BalanceScan_OneBasedIndex(toks, idx0 + 1, balance)

RECURSIVE BalanceScan(_, _, _)
BalanceScan(toks, idx0, balance) ==
    IF ~(idx0 < Len(toks))
    THEN [balance |-> balance, errs |-> <<>>]
    ELSE LET t == toks[idx0 + 1]
         IN  IF t = <<"(">> THEN BalanceScan(toks, idx0 + 1, balance + 1)
             ELSE IF t = <<")">>
             THEN IF balance - 1 < 0
                  THEN [balance |-> balance - 1,
                        errs |-> << "Unmatched ')' at token "
                                    \o ToString(idx0) \o "." >>]
                  ELSE BalanceScan(toks, idx0 + 1, balance - 1)
             ELSE BalanceScan(toks, idx0 + 1, balance)

\* CheckSyntax with the balance diagnostic left out after an unmatched ")"
CheckSyntax_NoBalanceAfterUnmatched(toks) ==
    LET start == IF toks # <<>> /\ Str(Upper(toks[1])) \notin VALID_STARTS
                 THEN << "SQL must start with a keyword, got '"
                         \o Str(toks[1]) \o "'." >>
                 ELSE <<>>
        scan  == BalanceScan(toks, 0, 0)
        bal   == IF scan.balance # 0 /\ scan.errs = <<>>
                 THEN << "Parentheses are not balanced." >>
                 ELSE <<>>
        semi  == IF toks # <<>> /\ toks[Len(toks)] # <<";">>
                 THEN << "SQL should end with ';'." >>
                 ELSE <<>>
    IN  start \o scan.errs \o bal \o semi

\* CheckSyntax with the start test against KEYWORDS instead of VALID_STARTS
CheckSyntax_StartAnyKeyword(toks) ==
    LET start == IF toks # <<>> /\ Str(Upper(toks[1])) \notin KEYWORDS
                 THEN << "SQL must start with a keyword, got '"
                         \o Str(toks[1]) \o "'." >>
                 ELSE <<>>
        scan  == BalanceScan(toks, 0, 0)
        bal   == IF scan.balance # 0
                 THEN << "Parentheses are not balanced." >>
                 ELSE <<>>
        semi  == IF toks # <<>> /\ toks[Len(toks)] # <<";">>
                 THEN << "SQL should end with ';'." >>
                 ELSE <<>>
    IN  start \o scan.errs \o bal \o semi

\* CheckSyntax with the semicolon test skipped once a diagnostic was found
CheckSyntax_SemicolonOnlyIfClean(toks) ==
    LET start == IF toks # <<>> /\ Str(Upper(toks[1])) \notin VALID_STARTS
                 THEN << "SQL must start with a keyword, got '"
                         \o Str(toks[1]) \o "'." >>
                 ELSE <<>>
        scan  == BalanceScan(toks, 0, 0)
        bal   == IF scan.balance # 0
                 THEN << "Parentheses are not balanced." >>
                 ELSE <<>>
        semi  == IF toks # <<>> /\ toks[Len(toks)] # <<";">>
                    /\ start \o scan.errs \o bal = <<>>
                 THEN << "SQL should end with ';'." >>
                 ELSE <<>>
    IN  start \o scan.errs \o bal \o semi

\* the diagnostics one run of _check_syntax appends to self.errors
CheckSyntax(toks) ==
    LET start == IF toks # <<>> /\ Str(Upper(toks[1])) \notin VALID_STARTS
                 THEN << "SQL must start with a keyword, got '"
                         \o Str(toks[1]) \o "'." >>
                 ELSE <<>>
        scan  == BalanceScan(toks, 0, 0)
        bal   == IF scan.balance # 0
                 THEN << "Parentheses are not balanced." >>
                 ELSE <<>>
        semi  == IF toks # <<>> /\ toks[Len(toks)] # <<";">>
                 THEN << "SQL should end with ';'." >>
                 ELSE <<>>
    IN  start \o scan.errs \o bal \o semi

\* self.errors when format_and_check returns
ErrorsAtReturn == errors \o CheckSyntax(merged)

\* _check_syntax(merged) and the return of format_and_check
CheckAndReturn ==
    /\ pc = "check"
    /\ errors' = ErrorsAtReturn
    /\ results' = Append(results, [obj |-> obj, formatted |-> formatted_sql,
                                   errors |-> ErrorsAtReturn])
    /\ pc' = "done"
    /\ UNCHANGED << original_sql, formatted_sql, tokens, merged, i, fmtLocals,
                    obj >>

(***************************************************************************)
(* App._format_txt_sql: the editor's text is replaced by its formatted     *)
(* form; formatting again constructs a new SQLFormatter on that text.      *)
(***************************************************************************)
Reformat ==
    /\ pc = "done"
    /\ obj < MaxObjs
    /\ Len(results) < MaxRuns
    /\ original_sql' = Strip(formatted_sql \o <<"\n">>)
    /\ formatted_sql' = <<>>
    /\ errors' = <<>>
    /\ obj' = obj + 1
    /\ pc' = "idle"
    /\ UNCHANGED << tokens, merged, i, fmtLocals, results >>

Next ==
    \/ Call /\ UNCHANGED << lexVars, concVars, appVars >>
    \/ MergeStep /\ UNCHANGED << lexVars, concVars, appVars >>
    \/ MergeDone /\ UNCHANGED << lexVars, concVars, appVars >>
    \/ FormatStep /\ UNCHANGED << lexVars, concVars, appVars >>
    \/ FormatFinish /\ UNCHANGED << lexVars, concVars, appVars >>
    \/ CheckAndReturn /\ UNCHANGED << lexVars, concVars, appVars >>
    \/ Reformat /\ UNCHANGED << lexVars, concVars, appVars >>

Spec == Init /\ [][Next]_vars

(***************************************************************************)
(* highlight_sql_tokenize: the classifying lexer.                          *)
(* Positions are 0-based offsets into the text; a pattern's match at      *)
(* offset p is given by the offset where it ends, or -1 when it does not  *)
(* match there.  No pattern matches the empty string.                      *)
(***************************************************************************)
Letters == { LowerLetters[k] : k \in 1..26 } \cup { UpperLetters[k] : k \in 1..26 }
Digits == { "0", "1", "2", "3", "4", "5", "6", "7", "8", "9" }
\* \w, within ASCII
WordChars == Letters \cup Digits \cup { "_" }

\* the character at offset p, "" at and after the end of the text
Ch(t, p) == IF 0 <= p /\ p < Len(t) THEN t[p + 1] ELSE ""

\* the end of the longest run of characters of cls that starts at p
RECURSIVE RunEnd(_, _, _)
RunEnd(t, p, cls) == IF Ch(t, p) \in cls THEN RunEnd(t, p + 1, cls) ELSE p

\* _space = [ \t\r\n\f]+
MatchSpace(t, p) ==
    IF Ch(t, p) \in {" ", "\t", "\r", "\n", "\f"}
    THEN RunEnd(t, p, {" ", "\t", "\r", "\n", "\f"})
    ELSE -1

\* the first offset at or after p that holds a newline or is the end
RECURSIVE LineEnd(_, _)
LineEnd(t, p) == IF p >= Len(t) \/ Ch(t, p) = "\n" THEN p ELSE LineEnd(t, p + 1)

\* _line_comment = --[^\n]*
MatchLineComment(t, p) ==
    IF Ch(t, p) = "-" /\ Ch(t, p + 1) = "-" THEN LineEnd(t, p + 2) ELSE -1

\* the end of the first "*/" that starts at or after p, -1 when there is none
RECURSIVE CommentClose(_, _)
CommentClose(t, p) ==
    IF p + 1 >= Len(t) THEN -1
    ELSE IF Ch(t, p) = "*" /\ Ch(t, p + 1) = "/" THEN p + 2
    ELSE CommentClose(t, p + 1)

\* _block_comment = /\*.*?\*/   (with re.DOTALL)
MatchBlockComment(t, p) ==
    IF Ch(t, p) = "/" /\ Ch(t, p + 1) = "*" THEN CommentClose(t, p + 2) ELSE -1

\* The body (?:qq|[^q])* of a quoted string, walked from offset p: a
\* character other than the quote q is consumed, a quote followed by a
\* quote is consumed as a pair, and the match ends after the last quote at
\* which the walk can stop (the regex engine backtracks to it); best is the
\* end found so far.
RECURSIVE QuoteWalk(_, _, _, _)
QuoteWalk(t, p, q, best) ==
    IF p >= Len(t) THEN best
    ELSE IF Ch(t, p) # q THEN QuoteWalk(t, p + 1, q, best)
    ELSE IF Ch(t, p + 1) = q THEN QuoteWalk(t, p + 2, q, p + 1)
    ELSE p + 1

\* _sq_string = '(?:''|[^'])*'
MatchSqString(t, p) ==
    IF Ch(t, p) = "'" THEN QuoteWalk(t, p + 1, "'", -1) ELSE -1

\* the end of the last double quote at or after p, -1 when there is none
RECURSIVE LastDq(_, _, _)
LastDq(t, p, best) ==
    IF p >= Len(t) THEN best
    ELSE LastDq(t, p + 1, IF Ch(t, p) = "\"" THEN p + 1 ELSE best)

\* _dq_string = "(?:[""]|[^"])*"  : the class [""] is the double quote
\* itself, so the body takes any character, as many as possible
MatchDqString(t, p) ==
    IF Ch(t, p) = "\"" THEN LastDq(t, p + 1, -1) ELSE -1

\* The grave accent (U+0060), which the module's string syntax cannot
\* spell: this value stands for that one character.
GraveAccent == "U+0060"

\* _bt_string: the pattern of _sq_string with the grave accent as the quote
MatchBtString(t, p) ==
    IF Ch(t, p) = GraveAccent THEN QuoteWalk(t, p + 1, GraveAccent, -1) ELSE -1

\* _param = (?:\?|:[A-Za-z_]\w*|@[A-Za-z_]\w*|\$[A-Za-z_]\w*)
MatchParam(t, p) ==
    IF Ch(t, p) = "?" THEN p + 1
    ELSE IF Ch(t, p) \in {":", "@", "$"} /\ Ch(t, p + 1) \in Letters \cup {"_"}
    THEN RunEnd(t, p + 2, WordChars)
    ELSE -1

\* _number = (?:\d+(?:\.\d+)?|\.\d+)
MatchNumber(t, p) ==
    IF Ch(t, p) \in Digits
    THEN LET e == RunEnd(t, p, Digits)
         IN  IF Ch(t, e) = "." /\ Ch(t, e + 1) \in Digits
             THEN RunEnd(t, e + 1, Digits)
             ELSE e
    ELSE IF Ch(t, p) = "." /\ Ch(t, p + 1) \in Digits
    THEN RunEnd(t, p + 1, Digits)
    ELSE -1

\* _op = (?:<>|!=|<=|>=|\|\||[=<>+\-*/%])
MatchOp(t, p) ==
    IF << Ch(t, p), Ch(t, p + 1) >>
         \in { <<"<", ">">>, <<"!", "=">>, <<"<", "=">>, <<">", "=">>, <<"|", "|">> }
    THEN p + 2
    ELSE IF Ch(t, p) \in {"=", "<", ">", "+", "-", "*", "/", "%"} THEN p + 1
    ELSE -1

\* _punct = [(),.;]
MatchPunct(t, p) == IF Ch(t, p) \in {"(", ")", ",", ".", ";"} THEN p + 1 ELSE -1

\* _ident = [A-Za-z_][A-Za-z0-9_$]*
MatchIdent(t, p) ==
    IF Ch(t, p) \in Letters \cup {"_"}
    THEN RunEnd(t, p + 1, Letters \cup Digits \cup {"_", "$"})
    ELSE -1

\* master, tried at offset p: the first alternative that matches there, as
\* [kind, end], kind = "" when none does
MasterAt(t, p) ==
    LET alts == << [kind |-> "ws",     end |-> MatchSpace(t, p)],
                   [kind |-> "lc",     end |-> MatchLineComment(t, p)],
                   [kind |-> "bc",     end |-> MatchBlockComment(t, p)],
                   [kind |-> "sq",     end |-> MatchSqString(t, p)],
                   [kind |-> "dq",     end |-> MatchDqString(t, p)],
                   [kind |-> "bt",     end |-> MatchBtString(t, p)],
                   [kind |-> "param",  end |-> MatchParam(t, p)],
                   [kind |-> "number", end |-> MatchNumber(t, p)],
                   [kind |-> "op",     end |-> MatchOp(t, p)],
                   [kind |-> "punct",  end |-> MatchPunct(t, p)],
                   [kind |-> "ident",  end |-> MatchIdent(t, p)] >>
        hits == { k \in 1..Len(alts) : alts[k].end # -1 }
    IN  IF hits = {} THEN [kind |-> "", end |-> -1]
        ELSE alts[CHOOSE k \in hits : \A h \in hits : k <= h]

\* master.finditer: the next match at or after offset p, as
\* [start, kind, end]; kind = "" when the rest of the text holds no match
RECURSIVE NextMatch(_, _)
NextMatch(t, p) ==
    IF p >= Len(t) THEN [start |-> p, kind |-> "", end |-> -1]
    ELSE IF MasterAt(t, p).kind # ""
    THEN [start |-> p, kind |-> MasterAt(t, p).kind, end |-> MasterAt(t, p).end]
    ELSE NextMatch(t, p + 1)

\* s[a:b]
Slice(t, a, b) == SubSeq(t, a + 1, b)

\* KEYWORDS of highlight_sql_tokenize
LexKEYWORDS ==
    { "ABORT","ABS","ABSOLUTE","ACCESS","ACTION","ADD","AFTER","ALL","ALTER","ALWAYS","ANALYZE","AND","AS","ASC",
      "ATTACH","AUTOINCREMENT","BEFORE","BEGIN","BETWEEN","BINARY","BLOB","BY","CASCADE","CASE","CAST","CHECK",
      "COLLATE","COLUMN","COMMIT","CONFLICT","CONSTRAINT","CREATE","CROSS","CURRENT","CURRENT_DATE",
      "CURRENT_TIME","CURRENT_TIMESTAMP","DATABASE","DEFAULT","DEFERRABLE","DEFERRED","DELETE","DESC","DETACH",
      "DISTINCT","DO","DROP","EACH","ELSE","END","ESCAPE","EXCEPT","EXCLUDE","EXCLUSIVE","EXISTS","EXPLAIN",
      "FAIL","FILTER","FIRST","FOLLOWING","FOR","FOREIGN","FROM","FULL","GENERATED","GLOB","GROUP","HAVING",
      "IF","IGNORE","IMMEDIATE","IN","INDEX","INDEXED","INITIALLY","INNER","INSERT","INSTEAD","INTERSECT",
      "INTO","IS","ISNULL","JOIN","KEY","LAST","LEFT","LIKE","LIMIT","MATCH","MATERIALIZED","NATURAL","NO",
      "NOT","NOTHING","NOTNULL","NULL","NULLS","OF","OFFSET","ON","OR","ORDER","OTHERS","OUTER","OVER","PARTITION",
      "PLAN","PRAGMA","PRECEDING","PRIMARY","QUERY","RAISE","RANGE","RECURSIVE","REFERENCES","REGEXP","REINDEX",
      "RELEASE","RENAME","REPLACE","RESTRICT","RETURNING","RIGHT","ROLLBACK","ROW","ROWS","SAVEPOINT","SELECT",
      "SET","TABLE","TEMP","TEMPORARY","THEN","TIES","TO","TRANSACTION","TRIGGER","UNBOUNDED","UNION","UNIQUE",
      "UPDATE","USING","VACUUM","VALUES","VIEW","VIRTUAL","WHEN","WHERE","WINDOW","WITH","WITHOUT","QUALIFY" }

\* ClassifiedToken with a run of whitespace stored as one space
ClassifiedToken_OneSpace(kind, val) ==
    CASE kind = "ws"              -> [typ |-> "ws", val |-> <<" ">>]
      [] kind \in {"lc", "bc"}       -> [typ |-> "comment", val |-> val]
      [] kind \in {"sq", "dq", "bt"} -> [typ |-> "string", val |-> val]
      [] kind = "ident"
           -> IF Str(Upper(val)) \in LexKEYWORDS
              THEN [typ |-> "keyword", val |-> Upper(val)]
              ELSE [typ |-> "ident", val |-> val]
      [] OTHER                    -> [typ |-> kind, val |-> val]

\* the (type, value) pair appended for a match of the given kind on val
ClassifiedToken(kind, val) ==
    CASE kind = "ws"              -> [typ |-> "ws", val |-> val]
      [] kind \in {"lc", "bc"}       -> [typ |-> "comment", val |-> val]
      [] kind \in {"sq", "dq", "bt"} -> [typ |-> "string", val |-> val]
      [] kind = "ident"
           -> IF Str(Upper(val)) \in LexKEYWORDS
              THEN [typ |-> "keyword", val |-> Upper(val)]
              ELSE [typ |-> "ident", val |-> val]
      [] OTHER                    -> [typ |-> kind, val |-> val]

\* the characters the lexer's inputs are drawn from
LexAlphabet == { "o", "N", " ", "'", "\"", "#", "/", "*" }

\* "a" = "b"
TwoQuotedNames == <<"\"", "a", "\"", " ", "=", " ", "\"", "b", "\"">>

LexInputs ==
    UNION { [1..n -> LexAlphabet] : n \in 0..MaxLexLen } \cup { TwoQuotedNames }

\* the entry of highlight_sql_tokenize(s)
LexInit ==
    /\ s \in LexInputs
    /\ pos = 0
    /\ out = <<>>
    /\ lpc = "scan"
    /\ original_sql = <<>>
    /\ formatted_sql = <<>>
    /\ errors = <<>>
    /\ tokens = <<>>
    /\ merged = <<>>
    /\ i = 0
    /\ lines = <<>>
    /\ current = <<>>
    /\ indent_level = 0
    /\ inside_list = FALSE
    /\ in_grant_priv_list = FALSE
    /\ pc = "off"
    /\ obj = 0
    /\ results = <<>>
    /\ other = <<>>
    /\ ref = <<>>
    /\ AppOff

\* one iteration of the loop over master.finditer(s)
LexStep ==
    /\ lpc = "scan"
    /\ NextMatch(s, pos).kind # ""
    /\ LET m   == NextMatch(s, pos)
           gap == IF m.start # pos
                  THEN << [typ |-> "ident", val |-> Slice(s, pos, m.start)] >>
                  ELSE <<>>
       IN  /\ out' = out \o gap
                     \o << ClassifiedToken(m.kind, Slice(s, m.start, m.end)) >>
           /\ pos' = m.end
    /\ UNCHANGED << s, lpc >>

\* the loop is exhausted: the trailing unmatched text, and the return
LexFinish ==
    /\ lpc = "scan"
    /\ NextMatch(s, pos).kind = ""
    /\ out' = IF pos < Len(s)
              THEN Append(out, [typ |-> "ident", val |-> Slice(s, pos, Len(s))])
              ELSE out
    /\ lpc' = "done"
    /\ UNCHANGED << s, pos >>

LexNext ==
    \/ LexStep /\ UNCHANGED << fmtVars, concVars, appVars >>
    \/ LexFinish /\ UNCHANGED << fmtVars, concVars, appVars >>

LexSpec == LexInit /\ [][LexNext]_vars

(***************************************************************************)
(* Two format_and_check invocations on separate SQLFormatter objects, in   *)
(* two threads.  One thread runs at a time; the attributes of the other    *)
(* thread's object and the locals of its call are kept in other.  Before   *)
(* the two are constructed, a call on the first text runs alone.           *)
(***************************************************************************)
\* the texts the concurrent invocations are given
ConcInputs ==
    { <<>>, <<")">>, Scenario1, Scenario2, Scenario3, Scenario4 }

\* the attributes of the SQLFormatter in use and the locals of its call
Instance ==
    [ original_sql |-> original_sql, formatted_sql |-> formatted_sql,
      errors |-> errors, tokens |-> tokens, merged |-> merged, i |-> i,
      lines |-> lines, current |-> current, indent_level |-> indent_level,
      inside_list |-> inside_list, in_grant_priv_list |-> in_grant_priv_list,
      pc |-> pc, obj |-> obj ]

\* SQLFormatter(sql), numbered n, before any call
NewFormatter(sql, n) ==
    [ original_sql |-> Strip(sql), formatted_sql |-> <<>>,
      errors |-> <<>>, tokens |-> <<>>, merged |-> <<>>, i |-> 0,
      lines |-> <<>>, current |-> <<>>, indent_level |-> 0,
      inside_list |-> FALSE, in_grant_priv_list |-> FALSE,
      pc |-> "idle", obj |-> n ]

\* the thread that owns the object and locals r is the one that runs next
Resume(r) ==
    /\ original_sql' = r.original_sql
    /\ formatted_sql' = r.formatted_sql
    /\ errors' = r.errors
    /\ tokens' = r.tokens
    /\ merged' = r.merged
    /\ i' = r.i
    /\ lines' = r.lines
    /\ current' = r.current
    /\ indent_level' = r.indent_level
    /\ inside_list' = r.inside_list
    /\ in_grant_priv_list' = r.in_grant_priv_list
    /\ pc' = r.pc
    /\ obj' = r.obj

ConcInit ==
    /\ \E sql \in ConcInputs : original_sql = Strip(sql)
    /\ formatted_sql = <<>>
    /\ errors = <<>>
    /\ tokens = <<>>
    /\ merged = <<>>
    /\ i = 0
    /\ lines = <<>>
    /\ current = <<>>
    /\ indent_level = 0
    /\ inside_list = FALSE
    /\ in_grant_priv_list = FALSE
    /\ pc = "idle"
    /\ obj = 1
    /\ results = <<>>
    /\ s = <<>>
    /\ pos = 0
    /\ out = <<>>
    /\ lpc = "off"
    /\ other = <<>>
    /\ ref = <<>>
    /\ AppOff

\* The call that ran alone has returned: its result is kept, and two
\* SQLFormatter objects are constructed, number 2 on the same text and
\* number 3 on any text; either thread may be the first to run.
Spawn ==
    /\ pc = "done"
    /\ obj = 1
    /\ ref = <<>>
    /\ ref' = << results[1] >>
    /\ results' = <<>>
    /\ \E sql \in ConcInputs : \E first \in BOOLEAN :
          IF first
          THEN /\ Resume(NewFormatter(original_sql, 2))
               /\ other' = << NewFormatter(sql, 3) >>
          ELSE /\ Resume(NewFormatter(sql, 3))
               /\ other' = << NewFormatter(original_sql, 2) >>

\* Switch with the diagnostics list shared by the two objects (a list held
\* by the class instead of the instance)
Switch_SharedErrors ==
    /\ other # <<>>
    /\ other' = << Instance >>
    /\ original_sql' = other[1].original_sql
    /\ formatted_sql' = other[1].formatted_sql
    /\ errors' = errors
    /\ tokens' = other[1].tokens
    /\ merged' = other[1].merged
    /\ i' = other[1].i
    /\ lines' = other[1].lines
    /\ current' = other[1].current
    /\ indent_level' = other[1].indent_level
    /\ inside_list' = other[1].inside_list
    /\ in_grant_priv_list' = other[1].in_grant_priv_list
    /\ pc' = other[1].pc
    /\ obj' = other[1].obj
    /\ UNCHANGED << results, ref >>

\* the running thread is suspended and the other thread resumed
Switch ==
    /\ other # <<>>
    /\ other' = << Instance >>
    /\ Resume(other[1])
    /\ UNCHANGED << results, ref >>

ConcNext ==
    \/ pc = "idle" /\ Call /\ UNCHANGED << lexVars, concVars, appVars >>
    \/ MergeStep /\ UNCHANGED << lexVars, concVars, appVars >>
    \/ MergeDone /\ UNCHANGED << lexVars, concVars, appVars >>
    \/ FormatStep /\ UNCHANGED << lexVars, concVars, appVars >>
    \/ FormatFinish /\ UNCHANGED << lexVars, concVars, appVars >>
    \/ CheckAndReturn /\ UNCHANGED << lexVars, concVars, appVars >>
    \/ Spawn /\ UNCHANGED << lexVars, appVars >>
    \/ Switch /\ UNCHANGED << lexVars, appVars >>

ConcSpec == ConcInit /\ [][ConcNext]_vars

(***************************************************************************)
(* The application: settings.db, templates.db, the DB tree and the active  *)
(* test database.  A path is a directory, a stem and a suffix; files holds *)
(* the directory entries that exist.                                       *)
(***************************************************************************)
SETTINGS_DB == [dir |-> "app", stem |-> "settings", suffix |-> ".db"]
TEMPLATES_DB == [dir |-> "app", stem |-> "templates", suffix |-> ".db"]
DEFAULT_DB_DIR == "test_dbs"

\* the directories the user can choose as catalog
Dirs == { "app", "test_dbs", "elsewhere" }

\* a symbolic link to settings.db, kept in another directory
LinkToSettings == [dir |-> "elsewhere", stem |-> "link", suffix |-> ".db"]

\* the entries that the user can create outside the application
UserPaths ==
    { [dir |-> "test_dbs", stem |-> "a", suffix |-> ".db"],
      [dir |-> "app", stem |-> "c", suffix |-> ".sqlite"],
      [dir |-> "elsewhere", stem |-> "notes", suffix |-> ".txt"],
      LinkToSettings }

Paths == UserPaths \cup { SETTINGS_DB, TEMPLATES_DB }

\* the user's entries that are SQLite databases of their own
TestDbs ==
    { path \in UserPaths :
        path # LinkToSettings /\ path.suffix \in { ".db", ".sqlite", ".sqlite3" } }

\* Path.resolve(): symbolic links are followed
Resolve(path) == IF path = LinkToSettings THEN SETTINGS_DB ELSE path

\* Path.exists() and Path.is_file(): the entry exists, and so does the
\* file a symbolic link points to
Exists(path, fs) == path \in fs /\ Resolve(path) \in fs

\* is_sqlite_file(path)
IsSqliteFile(path, fs) ==
    /\ Exists(path, fs)
    /\ path.suffix \in { ".db", ".sqlite", ".sqlite3" }

\* IsProtected on the path as written, without resolve()
IsProtected_Unresolved(path) ==
    path \in { SETTINGS_DB, TEMPLATES_DB }

\* App._is_protected(path)
IsProtected(path) ==
    Resolve(path) \in { Resolve(SETTINGS_DB), Resolve(TEMPLATES_DB) }

\* App._addition_reload_db_tree: the paths of db_nodes after the reload of
\* the catalog directory dir
AdditionReloadDbTree(dir, fs) ==
    { path \in fs : /\ path.dir = dir
                    /\ IsSqliteFile(path, fs)
                    /\ ~IsProtected(path) }

\* App._set_active_db(path)
SetActiveDb(path) ==
    IF IsProtected(path)
    THEN UNCHANGED << active_db, last_db >>
    ELSE /\ active_db' = << path >>
         /\ last_db' = << path >>

\* the rows _seed inserts into query_templates
SeedRows == 5

\* The process starts.  On a first run no settings exist; otherwise
\* settings.db and templates.db hold what earlier runs, imports or the user
\* left in them.
AppInit ==
    /\ \E firstRun \in BOOLEAN :
          IF firstRun
          THEN /\ files \in SUBSET UserPaths
               /\ tables \in SUBSET (files \cap TestDbs)
               /\ db_dir = <<>>
               /\ last_db = <<>>
               /\ qt_rows = 0
          ELSE /\ \E fs \in SUBSET UserPaths :
                     /\ files = fs \cup { SETTINGS_DB, TEMPLATES_DB }
                     /\ tables \in SUBSET (fs \cap TestDbs)
               /\ db_dir \in { << d >> : d \in Dirs }
               /\ last_db \in { <<>> } \cup { << path >> : path \in Paths }
               /\ qt_rows \in 0..MaxTemplates
    /\ db_nodes = {}
    /\ active_db = <<>>
    /\ pending = 0
    /\ shown = <<>>
    /\ apc = "new"
    /\ open_dbs = {}
    /\ open_tables = {}
    /\ reload_error = <<>>
    /\ original_sql = <<>>
    /\ formatted_sql = <<>>
    /\ errors = <<>>
    /\ tokens = <<>>
    /\ merged = <<>>
    /\ i = 0
    /\ lines = <<>>
    /\ current = <<>>
    /\ indent_level = 0
    /\ inside_list = FALSE
    /\ in_grant_priv_list = FALSE
    /\ pc = "off"
    /\ obj = 0
    /\ results = <<>>
    /\ s = <<>>
    /\ pos = 0
    /\ out = <<>>
    /\ lpc = "off"
    /\ other = <<>>
    /\ ref = <<>>

\* Settings(SETTINGS_DB): Settings._init
SettingsInit ==
    /\ apc = "new"
    /\ files' = files \cup { SETTINGS_DB }
    /\ db_dir' = IF db_dir = <<>> THEN << DEFAULT_DB_DIR >> ELSE db_dir
    /\ apc' = "settings"
    /\ UNCHANGED << last_db, db_nodes, active_db, qt_rows, pending, shown,
                    treeVars >>

\* TemplatesStore._init up to the end of the with block: the connection is
\* opened and the tables are created and committed
TemplatesCreate ==
    /\ apc = "settings"
    /\ files' = files \cup { TEMPLATES_DB }
    /\ pending' = 0
    /\ apc' = "tables"
    /\ UNCHANGED << db_dir, last_db, db_nodes, active_db, qt_rows, shown,
                    treeVars >>

\* TemplatesStore._init: the count and, on an empty table, _seed(con); the
\* inserts open a transaction on the connection
TemplatesSeed ==
    /\ apc = "tables"
    /\ pending' = IF qt_rows = 0 THEN SeedRows ELSE pending
    /\ apc' = "seeded"
    /\ UNCHANGED << files, db_dir, last_db, db_nodes, active_db, qt_rows, shown,
                    treeVars >>

\* TemplatesStore._init: con.close(); a transaction that is still open is
\* rolled back
TemplatesClose ==
    /\ apc = "seeded"
    /\ pending' = 0
    /\ apc' = "managers"
    /\ UNCHANGED << files, db_dir, last_db, db_nodes, active_db, qt_rows, shown,
                    treeVars >>

\* the NameError of _populate_columns: restore() reads open_paths, a name
\* that is bound nowhere
NameError == << "NameError: name 'open_paths' is not defined" >>

\* App._reload_db_tree on the tree whose catalog node was old_dir, with
\* catalog directory dir, entries fs and tables tabs: collect_open,
\* _addition_reload_db_tree and restore_open.  restore_open finds the saved
\* nodes by their text, the catalog node by the directory; it populates the
\* tables of a saved database node and calls _populate_columns on a saved
\* table node, which rebuilds the tree and then raises the NameError.
ReloadDbTree(old_dir, dir, fs, tabs) ==
    LET nodes == AdditionReloadDbTree(dir, fs)
        saved == IF old_dir = << dir >> THEN open_dbs \cap nodes ELSE {}
        cols  == { db \in saved : db \in open_tables /\ db \in tabs }
    IN  IF cols # {}
        THEN [db_nodes |-> nodes, open_dbs |-> {}, open_tables |-> {},
              reload_error |-> NameError]
        ELSE [db_nodes |-> nodes, open_dbs |-> saved, open_tables |-> {},
              reload_error |-> <<>>]

\* the tree after the reload r
TreeAfter(r) ==
    /\ db_nodes' = r.db_nodes
    /\ open_dbs' = r.open_dbs
    /\ open_tables' = r.open_tables
    /\ reload_error' = r.reload_error

\* App._load_initial_state
LoadInitialState ==
    /\ apc = "managers"
    /\ LET r == ReloadDbTree(db_dir, db_dir[1], files, tables)
       IN  /\ TreeAfter(r)
           /\ IF r.reload_error # <<>>
              THEN UNCHANGED << shown, active_db, last_db >>
              ELSE /\ shown' = << qt_rows >>
                   /\ IF last_db # <<>> /\ Exists(last_db[1], files)
                      THEN SetActiveDb(last_db[1])
                      ELSE UNCHANGED << active_db, last_db >>
    /\ apc' = "ready"
    /\ UNCHANGED << files, db_dir, qt_rows, pending, tables >>

\* App._on_tree_select on a database node
OnTreeSelect ==
    /\ apc = "ready"
    /\ \E path \in db_nodes : SetActiveDb(path)
    /\ UNCHANGED << files, db_dir, db_nodes, qt_rows, pending, shown, apc,
                    treeVars >>

\* App._on_tree_open: the user expands a database node; _populate_tables
\* replaces its children by the table nodes, each collapsed
OnTreeOpen ==
    /\ apc = "ready"
    /\ \E db \in db_nodes \ open_dbs :
          /\ open_dbs' = open_dbs \cup { db }
          /\ open_tables' = open_tables \ { db }
    /\ UNCHANGED << files, db_dir, last_db, db_nodes, active_db, qt_rows,
                    pending, shown, apc, tables, reload_error >>

\* App._on_open_maybe_columns: the user expands the table node of an
\* expanded database node; its columns replace the placeholder
OnOpenMaybeColumns ==
    /\ apc = "ready"
    /\ \E db \in (open_dbs \cap tables) \ open_tables :
          open_tables' = open_tables \cup { db }
    /\ UNCHANGED << files, db_dir, last_db, db_nodes, active_db, qt_rows,
                    pending, shown, apc, tables, open_dbs, reload_error >>

\* App._refresh_all: the reload of the tree, then the reload of the
\* template widgets unless the first raised
RefreshAll ==
    /\ apc = "ready"
    /\ LET r == ReloadDbTree(db_dir, db_dir[1], files, tables)
       IN  /\ TreeAfter(r)
           /\ shown' = IF r.reload_error # <<>> THEN shown ELSE << qt_rows >>
    /\ UNCHANGED << files, db_dir, last_db, active_db, qt_rows, pending, apc,
                    tables >>

\* App._menu_new_test_db with the file name path: the file is created, the
\* tree reloaded and, unless the reload raised, the database made active
NewTestDb(path) ==
    /\ apc = "ready"
    /\ IF IsProtected(path)
       THEN UNCHANGED << files, db_nodes, active_db, last_db, open_dbs,
                         open_tables, reload_error >>
       ELSE LET r == ReloadDbTree(db_dir, db_dir[1], files \cup { path }, tables)
            IN  /\ files' = files \cup { path }
                /\ TreeAfter(r)
                /\ IF r.reload_error # <<>>
                   THEN UNCHANGED << active_db, last_db >>
                   ELSE SetActiveDb(path)
    /\ UNCHANGED << db_dir, qt_rows, pending, shown, apc, tables >>

\* App._menu_new_test_db with the file name the user chose
MenuNewTestDb == \E path \in Paths : NewTestDb(path)

\* App._choose_db_dir with the directory the user chose
ChooseDbDir ==
    /\ apc = "ready"
    /\ \E dir \in Dirs :
          /\ db_dir' = << dir >>
          /\ TreeAfter(ReloadDbTree(db_dir, dir, files, tables))
    /\ UNCHANGED << files, last_db, active_db, qt_rows, pending, shown, apc,
                    tables >>

\* App._import_json: import_from_json commits the rows, then _refresh_all;
\* an exception of the refresh is caught and shown
ImportJson ==
    /\ apc = "ready"
    /\ qt_rows < MaxTemplates
    /\ qt_rows' = qt_rows + 1
    /\ LET r == ReloadDbTree(db_dir, db_dir[1], files, tables)
       IN  /\ TreeAfter(r)
           /\ shown' = IF r.reload_error # <<>> THEN shown
                       ELSE << qt_rows + 1 >>
    /\ UNCHANGED << files, db_dir, last_db, active_db, pending, apc, tables >>

\* App._run_sql on the active database, with statements that succeed and
\* that create a table or not: the statements are committed, then the tree
\* is reloaded; an exception of the reload is caught and shown
RunSql ==
    /\ apc = "ready"
    /\ active_db # <<>>
    /\ \E creates \in BOOLEAN :
          LET db   == active_db[1]
              tabs == IF creates THEN tables \cup { db } ELSE tables
          IN  /\ files' = files \cup { db }
              /\ tables' = tabs
              /\ TreeAfter(ReloadDbTree(db_dir, db_dir[1], files \cup { db }, tabs))
    /\ UNCHANGED << db_dir, last_db, active_db, qt_rows, pending, shown, apc >>

\* the window is closed; the next run starts from what is on disk
Quit ==
    /\ apc = "ready"
    /\ db_nodes' = {}
    /\ active_db' = <<>>
    /\ shown' = <<>>
    /\ open_dbs' = {}
    /\ open_tables' = {}
    /\ reload_error' = <<>>
    /\ apc' = "new"
    /\ UNCHANGED << files, db_dir, last_db, qt_rows, pending, tables >>

AppNext ==
    \/ SettingsInit /\ UNCHANGED << fmtVars, lexVars, concVars >>
    \/ TemplatesCreate /\ UNCHANGED << fmtVars, lexVars, concVars >>
    \/ TemplatesSeed /\ UNCHANGED << fmtVars, lexVars, concVars >>
    \/ TemplatesClose /\ UNCHANGED << fmtVars, lexVars, concVars >>
    \/ LoadInitialState /\ UNCHANGED << fmtVars, lexVars, concVars >>
    \/ OnTreeSelect /\ UNCHANGED << fmtVars, lexVars, concVars >>
    \/ OnTreeOpen /\ UNCHANGED << fmtVars, lexVars, concVars >>
    \/ OnOpenMaybeColumns /\ UNCHANGED << fmtVars, lexVars, concVars >>
    \/ RunSql /\ UNCHANGED << fmtVars, lexVars, concVars >>
    \/ RefreshAll /\ UNCHANGED << fmtVars, lexVars, concVars >>
    \/ MenuNewTestDb /\ UNCHANGED << fmtVars, lexVars, concVars >>
    \/ ChooseDbDir /\ UNCHANGED << fmtVars, lexVars, concVars >>
    \/ ImportJson /\ UNCHANGED << fmtVars, lexVars, concVars >>
    \/ Quit /\ UNCHANGED << fmtVars, lexVars, concVars >>

AppSpec == AppInit /\ [][AppNext]_vars

(***************************************************************************)
(* Properties of the classifying lexer.                                    *)
(***************************************************************************)
\* the concatenation of the values of the tokens ts
RECURSIVE RawText(_)
RawText(ts) == IF ts = <<>> THEN <<>> ELSE ts[1].val \o RawText(Tail(ts))

\* C1: the classification is lossless: the concatenation of the raw_text of
\* all tokens returned by highlight_sql_tokenize(s) equals s exactly.
C1_Lossless == lpc = "done" => RawText(out) = s

(***************************************************************************)
(* Properties of the formatter.                                            *)
(***************************************************************************)
\* the merged token sequence that the text t tokenizes and merges to
Retokenized(t) == MergeCompounds(Tokenize(Strip(t)))

\* the index (1-based) of the token processed last by _format_tokens
JustProcessed(tok) == pc = "format" /\ i >= 1 /\ merged[i] = tok

\* C2: formatting is idempotent on well-formed text: when a call reported no
\* diagnostics, formatting its output again (a new SQLFormatter on the
\* formatted text) returns exactly the same formatted text.
C2_Idempotent ==
    \A a, b \in 1..Len(results) :
        (/\ results[b].obj = results[a].obj + 1
         /\ results[a].errors = <<>>)
        => results[b].formatted = results[a].formatted

\* a diagnostics-free, multi-line formatted text was formatted a second time
C2_Witness ==
    \E a, b \in 1..Len(results) :
        /\ results[b].obj = results[a].obj + 1
        /\ results[a].errors = <<>>
        /\ \E k \in 1..Len(results[a].formatted) :
              results[a].formatted[k] = "\n"
        /\ results[b].formatted = results[a].formatted

\* C3: the formatter preserves the token sequence: tokenizing and merging
\* the formatted output yields the merged token sequence that was formatted
\* (no word, parenthesis, comma or semicolon is lost, added or reordered).
C3_TokensPreserved ==
    pc = "done" => Retokenized(formatted_sql) = merged

\* C4: format_and_check has no cross-call state: every call on one
\* SQLFormatter object returns the same formatted text and the same
\* diagnostics list.
C4_NoCrossCallState ==
    \A a, b \in 1..Len(results) :
        results[a].obj = results[b].obj
        => /\ results[a].formatted = results[b].formatted
           /\ results[a].errors = results[b].errors

\* the number of steps a call in progress still has to take, at most
StepsLeft ==
    CASE pc = "merge"  -> 3 + Len(tokens) + (Len(tokens) - i)
      [] pc = "format" -> 2 + (Len(merged) - i)
      [] pc = "check"  -> 1
      [] OTHER         -> 0

\* C5: format_and_check is total: no step raises, the loop cursors never
\* pass the end of their sequence, every step of a call in progress brings
\* the return strictly nearer, and a finished call has returned a formatted
\* text and a diagnostics list.
C5_Total ==
    /\ [](pc # "raised")
    /\ [](pc = "merge" => i <= Len(tokens))
    /\ [](pc = "format" => i <= Len(merged))
    /\ [][ (pc \in {"merge", "format", "check"})
           => (0 <= StepsLeft' /\ StepsLeft' < StepsLeft) ]_vars
    /\ [](pc = "done"
          => /\ results # <<>>
             /\ results[Len(results)].formatted = formatted_sql
             /\ results[Len(results)].errors = errors)

\* a call on malformed input (it starts with a separator or a close paren
\* and draws at least three diagnostics) has returned
C5_Witness ==
    /\ pc = "done"
    /\ Len(merged) >= 2
    /\ merged[1] \in { <<",">>, <<";">>, <<")">> }
    /\ Len(errors) >= 3

\* C6: keyword merging never splits a compound keyword: when two adjacent
\* coarse tokens, uppercased and joined by one space, are a phrase of the
\* keyword table, the merged sequence holds that phrase as one token and
\* never holds its two words as separate adjacent tokens.
C6_CompoundsMerged ==
    pc # "merge" =>
        \A j \in 1..(Len(tokens) - 1) :
            LET w1 == Upper(tokens[j])
                w2 == Upper(tokens[j + 1])
            IN  Str(w1 \o <<" ">> \o w2) \in KEYWORDS
                => /\ \E k \in 1..Len(merged) : merged[k] = w1 \o <<" ">> \o w2
                   /\ ~ \E k \in 1..(Len(merged) - 1) :
                          /\ Upper(merged[k]) = w1
                          /\ Upper(merged[k + 1]) = w2

\* three coarse tokens, two merged ones, GROUP BY among them
C6_Witness ==
    /\ pc = "format"
    /\ Len(tokens) = 3
    /\ Len(merged) = 2
    /\ \E k \in 1..Len(merged) : Str(merged[k]) = "GROUP BY"

\* C7: a comma processed while in_grant_priv_list is true does not flush the
\* pending line.
C7_PrivilegeCommaInline ==
    [][ (pc = "format" /\ i < Len(merged) /\ Tok = <<",">>
         /\ in_grant_priv_list)
        => lines' = lines ]_vars

\* the formatted text of Scenario1
Scenario1Formatted ==
    <<"S","E","L","E","C","T"," ","i","d",",","\n",
      "n","a","m","e","\n",
      "F","R","O","M"," ","t","\n",
      "W","H","E","R","E"," ","i","d","=","1",";">>

\* C8: while inside_list is true, a comma processed with a non-empty pending
\* line is attached to the preceding word and ends the output line: the
\* pending line becomes empty and one line, ending in the comma, is added;
\* "select id,name from t where id=1;" formats to four lines, no diagnostics.
C8_ListCommaBreaks ==
    /\ [][ (pc = "format" /\ i < Len(merged) /\ Tok = <<",">>
            /\ inside_list /\ current # <<>>)
           => /\ current' = <<>>
              /\ lines' = Append(lines,
                                 Repeat(Indent, indent_level)
                                 \o Join(<<" ">>, current) \o <<",">>) ]_vars
    /\ [](pc = "done" /\ obj = 1 /\ original_sql = Scenario1
          => formatted_sql = Scenario1Formatted /\ results[1].errors = <<>>)

\* a list comma has just ended a line
C8_Witness ==
    /\ JustProcessed(<<",">>)
    /\ inside_list
    /\ current = <<>>
    /\ lines # <<>>
    /\ lines[Len(lines)] # <<>>
    /\ lines[Len(lines)][Len(lines[Len(lines)])] = ","

\* the "(" at index p (1-based) of merged opens a column, value or
\* definition list: it follows INSERT INTO, VALUES or CREATE TABLE, with
\* nothing but plain words between
OpensList(p) ==
    /\ merged[p] = <<"(">>
    /\ \E q \in 1..(p - 1) :
          /\ Str(merged[q]) \in {"INSERT INTO", "VALUES", "CREATE TABLE"}
          /\ \A r \in (q + 1)..(p - 1) :
                /\ merged[r] \notin { <<"(">>, <<")">>, <<",">>, <<";">> }
                /\ Str(merged[r]) \notin CLAUSE_KEYWORDS

\* the "(" at index p is not yet closed before index k
OpenUntil(p, k) ==
    \A r \in (p + 1)..(k - 1) :
        Cardinality({ x \in (p + 1)..r : merged[x] = <<"(">> })
        >= Cardinality({ x \in (p + 1)..r : merged[x] = <<")">> })

\* C9: in a parenthesised list that follows INSERT INTO, VALUES or CREATE
\* TABLE, every comma between the opening parenthesis and its matching
\* closing parenthesis is followed by a line break: after the comma is
\* processed the pending line is empty.
C9_ListItemsOnePerLine ==
    (/\ JustProcessed(<<",">>)
     /\ \E p \in 1..(i - 1) : OpensList(p) /\ OpenUntil(p, i))
    => current = <<>>

\* C10: every semicolon is a statement boundary: right after it is processed
\* indent_level = 0, inside_list and in_grant_priv_list are false and the
\* pending line is empty; the line that follows a blank separator line has
\* no indentation.
C10_SemicolonResets ==
    /\ JustProcessed(<<";">>)
       => /\ indent_level = 0
          /\ ~inside_list
          /\ ~in_grant_priv_list
          /\ current = <<>>
    /\ pc \in {"format", "check"}
       => \A k \in 1..(Len(lines) - 1) :
             lines[k] = <<>> => /\ lines[k + 1] # <<>>
                                /\ lines[k + 1][1] # " "

\* a statement left a parenthesis open, its semicolon was processed, and the
\* next statement's first line was printed without indentation
C10_Witness ==
    /\ pc = "check"
    /\ \E k \in 1..(Len(lines) - 1) :
          /\ lines[k] = <<>>
          /\ lines[k + 1][1] # " "
          /\ \E j \in 1..(k - 1) : \E c \in 1..Len(lines[j]) : lines[j][c] = "("
          /\ \A j \in 1..(k - 1) : \A c \in 1..Len(lines[j]) : lines[j][c] # ")"

(***************************************************************************)
(* Properties of the diagnostics.                                          *)
(***************************************************************************)
\* the number of "(" or ")" tokens p among the first k tokens of toks
ParenCount(toks, k, p) == Cardinality({ x \in 1..k : toks[x] = p })

\* the parentheses of toks are properly nested
ProperlyNested(toks) ==
    /\ \A k \in 1..Len(toks) :
          ParenCount(toks, k, <<")">>) <= ParenCount(toks, k, <<"(">>)
    /\ ParenCount(toks, Len(toks), <<")">>) = ParenCount(toks, Len(toks), <<"(">>)

\* how many entries of the list es are the message msg
Occurrences(msg, es) == Cardinality({ k \in 1..Len(es) : es[k] = msg })

\* C11: a run of _check_syntax keeps the diagnostics it found and appends
\* "Parentheses are not balanced." exactly once when the parentheses of the
\* merged sequence are not properly nested and not at all when they are;
\* "CREATE TABLE t (id INT;" gets this diagnostic and no other.
C11_BalanceDiagnostic ==
    /\ [][ (pc = "check")
           => /\ Len(errors') >= Len(errors)
              /\ SubSeq(errors', 1, Len(errors)) = errors
              /\ Occurrences("Parentheses are not balanced.",
                             SubSeq(errors', Len(errors) + 1, Len(errors')))
                 = (IF ProperlyNested(merged) THEN 0 ELSE 1) ]_vars
    /\ [](results # <<>> /\ original_sql = Scenario3
          => results[1].errors = << "Parentheses are not balanced." >>)

\* a first call on a sequence with as many ")" as "(" that is not properly
\* nested has returned with the balance diagnostic once
C11_Witness ==
    /\ pc = "done"
    /\ Len(results) = 1
    /\ ~ProperlyNested(merged)
    /\ ParenCount(merged, Len(merged), <<")">>) = ParenCount(merged, Len(merged), <<"(">>)
    /\ ParenCount(merged, Len(merged), <<"(">>) >= 1
    /\ Occurrences("Parentheses are not balanced.", errors) = 1

\* the start diagnostic that names the token tok
StartMessage(tok) == "SQL must start with a keyword, got '" \o Str(tok) \o "'."

\* C12: a run of _check_syntax appends the start diagnostic if and only if
\* the merged sequence is non-empty and its first token, uppercased, is not
\* a valid statement start; it names the first token, is the first entry
\* appended, and no other token of the sequence is ever named.
C12_StartDiagnostic ==
    [][ (pc = "check")
        => LET emitted == SubSeq(errors', Len(errors) + 1, Len(errors'))
               bad     == /\ merged # <<>>
                          /\ Str(Upper(merged[1])) \notin VALID_STARTS
           IN  /\ bad => /\ emitted # <<>>
                         /\ emitted[1] = StartMessage(merged[1])
               /\ \A k \in 1..Len(emitted) :
                     (\E j \in 1..Len(merged) : emitted[k] = StartMessage(merged[j]))
                     => (bad /\ k = 1 /\ emitted[k] = StartMessage(merged[1])) ]_vars

\* two statements, both opening with a word that is no statement start: the
\* first was named once, the second was not named
C12_Witness ==
    /\ pc = "done"
    /\ Len(results) = 1
    /\ merged # <<>>
    /\ Str(Upper(merged[1])) \notin VALID_STARTS
    /\ Occurrences(StartMessage(merged[1]), errors) = 1
    /\ \E k \in 2..Len(merged) :
          /\ merged[k - 1] = <<";">>
          /\ merged[k] \notin { <<";">>, <<",">>, <<"(">>, <<")">>, merged[1] }
          /\ Str(Upper(merged[k])) \notin VALID_STARTS
          /\ Occurrences(StartMessage(merged[k]), errors) = 0

\* C13: a run of _check_syntax appends "SQL should end with ';'." exactly
\* once when the merged sequence is non-empty and its last token is not ";"
\* and not at all otherwise, whatever the other checks found; the empty
\* input yields the empty formatted text and no diagnostics.
C13_SemicolonDiagnostic ==
    /\ [][ (pc = "check")
           => Occurrences("SQL should end with ';'.",
                          SubSeq(errors', Len(errors) + 1, Len(errors')))
              = (IF merged # <<>> /\ merged[Len(merged)] # <<";">>
                 THEN 1 ELSE 0) ]_vars
    /\ [](pc = "done" /\ original_sql = <<>>
          => formatted_sql = <<>> /\ errors = <<>>)

\* a first call has returned the semicolon diagnostic after a start
\* diagnostic and both parenthesis diagnostics
C13_Witness ==
    /\ pc = "done"
    /\ Len(results) = 1
    /\ Len(errors) = 4
    /\ merged # <<>>
    /\ errors[1] = StartMessage(merged[1])
    /\ errors[3] = "Parentheses are not balanced."
    /\ errors[4] = "SQL should end with ';'."

(***************************************************************************)
(* Properties that relate the formatter to the lexer and to its input.     *)
(***************************************************************************)
\* C14: every word of every keyword the formatter has uppercased is
\* classified as keyword, not ident, by highlight_sql_tokenize.
C14_KeywordsHighlighted ==
    pc = "done" =>
        \A k \in 1..Len(merged) :
            Str(merged[k]) \in KEYWORDS
            => \A j \in 1..Len(Split(merged[k])) :
                  ClassifiedToken("ident", Split(merged[k])[j]).typ = "keyword"

\* the offsets (1-based) of the single quotes of the text t
QuoteOffsets(t) == { k \in 1..Len(t) : t[k] = "'" }

\* the first single-quoted literal of t, quotes included
FirstLiteral(t) ==
    LET q1 == CHOOSE k \in QuoteOffsets(t) : \A j \in QuoteOffsets(t) : k <= j
        q2 == CHOOSE k \in QuoteOffsets(t) \ {q1} :
                  \A j \in QuoteOffsets(t) \ {q1} : k <= j
    IN  SubSeq(t, q1, q2)

\* the text part occurs in the text whole
Contains(whole, part) ==
    \E p \in 0..(Len(whole) - Len(part)) :
        SubSeq(whole, p + 1, p + Len(part)) = part

\* C15: formatting leaves literals untouched: the first single-quoted
\* literal of the input occurs unchanged in the formatted text.
C15_LiteralsUntouched ==
    (pc = "done" /\ Cardinality(QuoteOffsets(original_sql)) >= 2)
    => Contains(formatted_sql, FirstLiteral(original_sql))

(***************************************************************************)
(* Properties of the two loops and of the clause branch.                   *)
(***************************************************************************)
\* C19: every iteration of the merge loop advances its cursor by 1, 2 or 3
\* and never past the end of the token sequence, and the loop is left with
\* the cursor exactly at the end; every iteration of the formatter loop
\* advances its cursor by exactly one and consumes the token under it, and
\* the final flush happens with the cursor exactly at the end.
C19_LoopsAdvance ==
    /\ [][ (pc = "merge" /\ pc' = "merge")
           => /\ i' - i \in {1, 2, 3}
              /\ i' <= Len(tokens)
              /\ Len(merged') = Len(merged) + 1 ]_vars
    /\ [][ (pc = "merge" /\ pc' = "format") => i = Len(tokens) ]_vars
    /\ [][ (pc = "format" /\ pc' = "format")
           => i' = i + 1 /\ i' <= Len(merged) ]_vars
    /\ [][ (pc = "format" /\ pc' = "check")
           => i = Len(merged) /\ current' = <<>> ]_vars

\* the merge loop has just left a sequence that ends in a two-word phrase
C19_Witness ==
    /\ pc = "format"
    /\ i = 0
    /\ Len(tokens) = 3
    /\ Len(merged) = 2
    /\ Len(Split(merged[2])) = 2

\* the tokens of one output line, without its indentation
LineTokens(line) == MergeCompounds(Tokenize(Strip(line)))

\* C20: a token that takes the clause branch flushes the pending line and
\* begins a new one that holds this token alone; in the lines printed, a
\* clause keyword that is not the first word of its line is one of the
\* privilege words SELECT, INSERT, UPDATE, DELETE, ALL.
C20_ClauseBeginsLine ==
    /\ [][ (pc = "format" /\ i < Len(merged) /\ IsClauseTok(Tok))
           => /\ current' = << Tok >>
              /\ lines' = IF current = <<>> THEN lines
                          ELSE Append(lines, Repeat(Indent, indent_level)
                                             \o Join(<<" ">>, current)) ]_vars
    /\ [](pc \in {"format", "check"}
          => \A k \in 1..Len(lines) :
                \A j \in 2..Len(LineTokens(lines[k])) :
                    Str(LineTokens(lines[k])[j]) \in CLAUSE_KEYWORDS
                    => Str(LineTokens(lines[k])[j]) \in PrivilegeWords)

\* a clause keyword met with a non-empty pending line has begun a new line
C20_Witness ==
    /\ pc = "format"
    /\ i >= 2
    /\ Str(merged[i]) \in CLAUSE_KEYWORDS
    /\ merged[i - 1] \notin { <<",">>, <<"(">>, <<")">>, <<";">> }
    /\ current = << merged[i] >>
    /\ lines # <<>>

(***************************************************************************)
(* Properties of concurrent invocations.                                   *)
(***************************************************************************)
\* C16: of two format_and_check invocations on separate SQLFormatter
\* objects, interleaved in any order, the one on the text that was also
\* formatted alone returns exactly what the call alone returned, and no
\* step of the running invocation changes the object or the locals of the
\* suspended one.
C16_Isolated ==
    /\ [](\A k \in 1..Len(results) :
             (ref # <<>> /\ results[k].obj = 2)
             => /\ results[k].formatted = ref[1].formatted
                /\ results[k].errors = ref[1].errors)
    /\ [][ (other # <<>> /\ obj' = obj) => other' = other ]_vars

\* the invocation on object 2 has returned, with diagnostics, while the
\* invocation on object 3, which has its own diagnostics-free text, was
\* suspended in the middle of its formatter loop
C16_Witness ==
    /\ ref # <<>>
    /\ pc = "done"
    /\ obj = 2
    /\ Len(results) = 1
    /\ results[1].obj = 2
    /\ results[1].errors # <<>>
    /\ other # <<>>
    /\ other[1].pc = "format"
    /\ other[1].i >= 1
    /\ other[1].i < Len(other[1].merged)
    /\ other[1].original_sql = Scenario2

(***************************************************************************)
(* Properties of the application.                                          *)
(***************************************************************************)
\* C17: the protected databases are never a test-DB target: no path of
\* db_nodes and no active_db is settings.db or templates.db.
C17_ProtectedNeverTarget ==
    /\ \A path \in db_nodes : Resolve(path) \notin { SETTINGS_DB, TEMPLATES_DB }
    /\ active_db # <<>>
       => Resolve(active_db[1]) \notin { SETTINGS_DB, TEMPLATES_DB }

\* the catalog is a directory that holds a link to settings.db, the link
\* exists and was the last_db to restore, and a test database is active
C17_Witness ==
    /\ apc = "ready"
    /\ db_dir = << "elsewhere" >>
    /\ { SETTINGS_DB, TEMPLATES_DB, LinkToSettings } \subseteq files
    /\ active_db # <<>>
    /\ db_nodes = {}

\* C18: on a first run the seed is durable: once the TemplatesStore is
\* constructed on an empty templates.db, a read through a new connection
\* returns a non-empty query_templates.
C18_SeededOnFirstRun ==
    /\ apc \in {"managers", "ready"} => qt_rows > 0
    /\ (apc = "ready" /\ shown # <<>>) => shown[1] > 0

(***************************************************************************)
(* Properties of the privilege list, the indentation, the parentheses and  *)
(* the semicolon.                                                          *)
(***************************************************************************)
\* the token ends a privilege list: ON, TO, ";" or a clause keyword that is
\* no privilege word
EndsPrivList(tok) ==
    \/ Str(tok) \in {"ON", "TO", ";"}
    \/ Str(tok) \in CLAUSE_KEYWORDS \ PrivilegeWords

\* among the first k tokens of merged there is a GRANT or REVOKE with no
\* token after it that ends a privilege list
GrantOpen(k) ==
    \E g \in 1..k :
        /\ Str(merged[g]) \in {"GRANT", "REVOKE"}
        /\ \A r \in (g + 1)..k : ~EndsPrivList(merged[r])

\* C21: in_grant_priv_list is true exactly from a GRANT or REVOKE until the
\* first following ON, TO, ";" or clause keyword that takes the clause
\* branch; an ON or TO met while it is true is appended to the pending line
\* without a flush and clears it; SELECT, INSERT, UPDATE, DELETE and ALL met
\* while it is true are appended to the pending line and leave it true.
C21_PrivilegeListSpan ==
    /\ [](pc = "format" => in_grant_priv_list = GrantOpen(i))
    /\ [][ (pc = "format" /\ i < Len(merged) /\ in_grant_priv_list
            /\ Str(Tok) \in {"ON", "TO"})
           => /\ lines' = lines
              /\ current' = Append(current, Tok)
              /\ ~in_grant_priv_list' ]_vars
    /\ [][ (pc = "format" /\ i < Len(merged) /\ in_grant_priv_list
            /\ Str(Tok) \in PrivilegeWords)
           => /\ lines' = lines
              /\ current' = Append(current, Tok)
              /\ in_grant_priv_list' ]_vars

\* a TO has just ended a privilege list that held a privilege word, and it
\* stands on the GRANT line
C21_Witness ==
    /\ pc = "format"
    /\ i >= 3
    /\ Str(merged[i]) = "TO"
    /\ Str(merged[i - 1]) \in PrivilegeWords
    /\ GrantOpen(i - 1)
    /\ ~in_grant_priv_list
    /\ Len(current) >= 3
    /\ Str(current[1]) = "GRANT"

\* the index of the last ";" among the first k tokens of merged, 0 if none
LastSemicolon(k) ==
    LET semis == { x \in 1..k : merged[x] = <<";">> }
    IN  IF semis = {} THEN 0 ELSE CHOOSE x \in semis : \A y \in semis : y <= x

\* the number of tokens p among tokens a..b of merged
CountIn(a, b, p) == Cardinality({ x \in a..b : merged[x] = p })

\* "(" minus ")" among the tokens after the last ";" up to token k
DepthSinceSemicolon(k) ==
    CountIn(LastSemicolon(k) + 1, k, <<"(">>)
        - CountIn(LastSemicolon(k) + 1, k, <<")">>)

\* no ")" after the last ";" up to token k is unmatched in its statement
NoUnmatchedSinceSemicolon(k) ==
    \A j \in (LastSemicolon(k) + 1)..k :
        CountIn(LastSemicolon(k) + 1, j, <<")">>)
            <= CountIn(LastSemicolon(k) + 1, j, <<"(">>)

\* the number of spaces a line begins with
LeadingSpaces(line) == Len(line) - Len(LStrip(line))

\* the lines a step has added to lines
AddedLines == { k \in 1..Len(lines') : k > Len(lines) }

\* C22: indent_level is never negative and, in a statement with no
\* unmatched ")", equals the "(" minus the ")" processed since the last ";";
\* every non-blank line is prefixed by exactly 4 x indent_level spaces as of
\* the moment it is flushed, the line ending in "(" before the increment.
C22_IndentTracksNesting ==
    /\ [](pc = "format" =>
            /\ indent_level >= 0
            /\ (NoUnmatchedSinceSemicolon(i)
                    => indent_level = DepthSinceSemicolon(i)))
    /\ [][ (pc = "format")
           => \A k \in AddedLines :
                \/ lines'[k] = <<>>
                \/ /\ i < Len(merged)
                   /\ Tok = <<")">>
                   /\ k = Len(lines')
                   /\ LeadingSpaces(lines'[k]) = 4 * indent_level'
                \/ /\ ~(i < Len(merged) /\ Tok = <<")">> /\ k = Len(lines'))
                   /\ LeadingSpaces(lines'[k]) = 4 * indent_level ]_vars
    /\ [][ (pc = "format" /\ i < Len(merged) /\ Tok = <<"(">>)
           => /\ indent_level' = indent_level + 1
              /\ Len(lines') = Len(lines) + 1
              /\ LeadingSpaces(lines'[Len(lines')]) = 4 * indent_level ]_vars

\* a second "(" has just been printed one level deep, and the level is 2
C22_Witness ==
    /\ JustProcessed(<<"(">>)
    /\ indent_level = 2
    /\ lines # <<>>
    /\ lines[Len(lines)] = Indent \o <<"(">>

\* the index of the "(" that the ")" at index k of merged closes, looked for
\* among the tokens from index lo on; 0 if there is none
MatchingOpen(lo, k) ==
    LET opens == { m \in lo..(k - 1) :
                     /\ merged[m] = <<"(">>
                     /\ CountIn(m, k, <<"(">>) = CountIn(m, k, <<")">>) }
    IN  IF opens = {} THEN 0 ELSE CHOOSE m \in opens : \A y \in opens : y <= m

\* the indent of the printed line that ends in the "(" at index m of merged
RECURSIVE OpenLineIndent(_)
OpenLineIndent(m) ==
    IF m <= 1 THEN 0
    ELSE LET before == OpenLineIndent(m - 1)
         IN  IF merged[m - 1] = <<"(">> THEN before + 1
             ELSE IF merged[m - 1] = <<")">>
                  THEN (IF before > 0 THEN before - 1 ELSE 0)
             ELSE IF merged[m - 1] = <<";">> THEN 0
             ELSE before

\* the step of a ")" prints the pending line, then ")" alone at depth d, and
\* ends the list
ClosesAtDepth(d) ==
    /\ lines'[Len(lines')] = Repeat(Indent, d) \o <<")">>
    /\ current' = <<>>
    /\ ~inside_list'
    /\ indent_level' = d
    /\ IF current # <<>>
       THEN /\ Len(lines') = Len(lines) + 2
            /\ LStrip(lines'[Len(lines) + 1]) = Join(<<" ">>, current)
       ELSE Len(lines') = Len(lines) + 1

\* every printed line that holds a ")" is ")" or ");" after its indent
CloseParenLinesAlone ==
    \A k \in 1..Len(lines) :
        (\E x \in 1..Len(lines[k]) : lines[k][x] = ")")
            => LStrip(lines[k]) \in { <<")">>, <<")", ";">> }

\* the "(" lines are printed at OpenLineIndent
OpenLinesAtOpenLineIndent ==
    [][ (pc = "format" /\ i < Len(merged) /\ Tok = <<"(">>)
        => LeadingSpaces(lines'[Len(lines')]) = 4 * OpenLineIndent(i + 1)
      ]_vars

\* C23 as stated: every ")" is printed on a line of its own, after a flush
\* of the pending line, at the indent of the line that holds its matching
\* "(", or at indent 0 when it is unmatched, and inside_list is false after.
C23_CloseParenAtMatchingIndent ==
    [][ (pc = "format" /\ i < Len(merged) /\ Tok = <<")">>)
        => LET m == MatchingOpen(1, i + 1)
           IN  ClosesAtDepth(IF m = 0 THEN 0 ELSE OpenLineIndent(m)) ]_vars

\* C23 amended: every ")" is printed on a line of its own (")" or, with an
\* attached ";", ");"), after a flush of the pending line, at the indent of
\* the line that holds its matching "(" when that "(" stands after the last
\* ";" before it, and at indent 0 otherwise; inside_list is false after it.
C23_CloseParenAtStatementIndent ==
    /\ [][ (pc = "format" /\ i < Len(merged) /\ Tok = <<")">>)
           => LET m == MatchingOpen(LastSemicolon(i) + 1, i + 1)
              IN  ClosesAtDepth(IF m = 0 THEN 0 ELSE OpenLineIndent(m))
         ]_vars
    /\ OpenLinesAtOpenLineIndent
    /\ [](pc = "format" => CloseParenLinesAlone)

\* a ")" has just closed the inner of two "(" and stands one level deep
C23_Witness ==
    /\ JustProcessed(<<")">>)
    /\ i >= 3
    /\ MatchingOpen(LastSemicolon(i - 1) + 1, i) = i - 1
    /\ indent_level = 1
    /\ lines[Len(lines)] = Indent \o <<")">>
    /\ ~inside_list

\* the index of the last non-blank line of ls, 0 if there is none
LastNonBlank(ls) ==
    LET full == { k \in 1..Len(ls) : ls[k] # <<>> }
    IN  IF full = {} THEN 0 ELSE CHOOSE k \in full : \A y \in full : y <= k

\* C24: a ";" is attached, with no whitespace before it, to the last word of
\* the pending line or, when the pending line is empty, to the last printed
\* non-blank line; so no printed line is ";" alone and the blank line that
\* separates two statements is never overwritten.
C24_SemicolonAttached ==
    /\ [][ (pc = "format" /\ i < Len(merged) /\ Tok = <<";">>)
           => /\ \A k \in 1..Len(lines) : lines[k] = <<>> => lines'[k] = <<>>
              /\ IF current # <<>>
                 THEN lines'[Len(lines) + 1] =
                        Repeat(Indent, indent_level)
                            \o Join(<<" ">>, current) \o <<";">>
                 ELSE LastNonBlank(lines) # 0
                        => lines'[LastNonBlank(lines)] =
                             lines[LastNonBlank(lines)] \o <<";">> ]_vars
    /\ [](pc = "format" => \A k \in 1..Len(lines) : LStrip(lines[k]) # <<";">>)

(***************************************************************************)
(* Properties of the unmatched-parenthesis diagnostic and of the coarse    *)
(* tokens.                                                                 *)
(***************************************************************************)
\* the diagnostic that names the token with 0-based index k
UnmatchedMessage(k) == "Unmatched ')' at token " \o ToString(k) \o "."

\* the 1-based position in toks of the first ")" whose prefix holds more ")"
\* than "(", 0 if there is none
FirstUnmatched(toks) ==
    LET bad == { k \in 1..Len(toks) :
                   /\ toks[k] = <<")">>
                   /\ ParenCount(toks, k, <<")">>) > ParenCount(toks, k, <<"(">>) }
    IN  IF bad = {} THEN 0 ELSE CHOOSE k \in bad : \A y \in bad : k <= y

\* the positions of es that hold an unmatched-parenthesis diagnostic for
\* some token of toks
UnmatchedAt(es, toks) ==
    { p \in 1..Len(es) : \E k \in 0..Len(toks) : es[p] = UnmatchedMessage(k) }

\* C25: "Unmatched ')' at token k." is emitted at most once per call, with k
\* the 0-based index in the merged tokens of the first ")" whose prefix
\* holds more ")" than "("; the scan stops there, and whenever it is emitted
\* "Parentheses are not balanced." follows it directly.
C25_UnmatchedDiagnostic ==
    [][ (pc = "check")
        => LET new == SubSeq(errors', Len(errors) + 1, Len(errors'))
               at  == UnmatchedAt(new, merged)
               k   == FirstUnmatched(merged)
           IN  IF k = 0 THEN at = {}
               ELSE /\ Cardinality(at) = 1
                    /\ \A p \in at :
                         /\ new[p] = UnmatchedMessage(k - 1)
                         /\ p < Len(new)
                         /\ new[p + 1] = "Parentheses are not balanced." ]_vars

\* a first call whose first unmatched ")" is not the first token, followed
\* by a "(", has returned with the two diagnostics in a row
C25_Witness ==
    /\ pc = "done"
    /\ Len(results) = 1
    /\ FirstUnmatched(merged) >= 2
    /\ \E k \in 1..Len(merged) : k > FirstUnmatched(merged) /\ merged[k] = <<"(">>
    /\ \E p \in 1..(Len(errors) - 1) :
         /\ errors[p] = UnmatchedMessage(FirstUnmatched(merged) - 1)
         /\ errors[p + 1] = "Parentheses are not balanced."

\* the text t with its whitespace removed
WithoutWhitespace(t) == SelectSeq(t, LAMBDA c : c \notin Whitespace)

\* the concatenation of the tokens ts
RECURSIVE Flatten(_)
Flatten(ts) == IF ts = <<>> THEN <<>> ELSE ts[1] \o Flatten(Tail(ts))

\* a coarse token is one punctuation character, or has neither punctuation
\* nor whitespace in it
WellFormedToken(tok) ==
    /\ tok # <<>>
    /\ \/ Len(tok) = 1 /\ tok[1] \in Punctuation
       \/ \A x \in 1..Len(tok) : tok[x] \notin Punctuation \cup Whitespace

\* C28: every coarse token of the tokenizer is non-empty and is either one
\* of "(", ")", ",", ";" or holds none of the four and no whitespace; the
\* tokens keep the order of the input and their concatenation is the input
\* with all whitespace removed (no token for an empty or blank input).
C28_CoarseTokens ==
    pc \in {"merge", "format", "check", "done"} =>
        /\ \A k \in 1..Len(tokens) : WellFormedToken(tokens[k])
        /\ Flatten(tokens) = WithoutWhitespace(original_sql)
        /\ (WithoutWhitespace(original_sql) = <<>> => tokens = <<>>)

\* an input has been tokenized in which a ";" and a "," stand right after a
\* word, and both are tokens of their own
C28_Witness ==
    /\ pc = "merge"
    /\ \E x \in 2..Len(original_sql) :
         /\ original_sql[x] = ";"
         /\ original_sql[x - 1] \notin Punctuation \cup Whitespace
    /\ \E x \in 2..Len(original_sql) :
         /\ original_sql[x] = ","
         /\ original_sql[x - 1] \notin Punctuation \cup Whitespace
    /\ \E k \in 1..Len(tokens) : tokens[k] = <<";">>
    /\ \E k \in 1..Len(tokens) : tokens[k] = <<",">>
    /\ Len(original_sql) > Len(WithoutWhitespace(original_sql))

(***************************************************************************)
(* Properties of the classifying lexer's tokens.                           *)
(***************************************************************************)
\* the offset in s at which token k of out begins, by the lengths of the
\* tokens before it (the running position of highlight_sql)
TokenOffset(k) == Len(RawText(SubSeq(out, 1, k - 1)))

\* the offset after the first quote q at or after offset p of t that is not
\* the first of a doubled pair; -1 if there is none
RECURSIVE FirstClosingQuote(_, _, _)
FirstClosingQuote(t, p, q) ==
    IF p >= Len(t) THEN -1
    ELSE IF Ch(t, p) = q /\ Ch(t, p + 1) = q THEN FirstClosingQuote(t, p + 2, q)
    ELSE IF Ch(t, p) = q THEN p + 1
    ELSE FirstClosingQuote(t, p + 1, q)

\* the string tokens of out that begin with a double quote
DoubleQuotedTokens ==
    { k \in 1..Len(out) : out[k].typ = "string" /\ out[k].val[1] = "\"" }

\* C26: a double-quoted token starts at a double quote and ends at the first
\* following double quote that is not part of a doubled pair; the input
\* "a" = "b" yields two string tokens.
C26_DoubleQuotedToken ==
    lpc = "done" =>
        /\ \A k \in DoubleQuotedTokens :
             TokenOffset(k) + Len(out[k].val)
                = FirstClosingQuote(s, TokenOffset(k) + 1, "\"")
        /\ (s = TwoQuotedNames => Cardinality(DoubleQuotedTokens) = 2)

\* an opening delimiter at offset p of t that has no terminator after it
UnterminatedAt(t, p) ==
    \/ /\ Ch(t, p) \in {"'", "\"", GraveAccent}
       /\ \A x \in (p + 1)..(Len(t) - 1) : Ch(t, x) # Ch(t, p)
    \/ /\ Ch(t, p) = "/"
       /\ Ch(t, p + 1) = "*"
       /\ CommentClose(t, p + 2) = -1

\* C27: malformed input is absorbed to the end of the input: a token that
\* begins at an opening quote, backtick or "/*" with no terminator is the
\* last token and extends to the end of the input.
C27_UnterminatedAbsorbed ==
    lpc = "done" =>
        \A k \in 1..Len(out) :
            UnterminatedAt(s, TokenOffset(k))
                => /\ k = Len(out)
                   /\ out[k].val = Slice(s, TokenOffset(k), Len(s))

\* C29: the lexer's tokens are non-empty, contiguous and length-preserving:
\* each token's text equals, up to letter case, the slice of the input of
\* its length at its running offset, and the token lengths add up to the
\* input consumed (the whole input at the return).
C29_TokensCoverInput ==
    /\ \A k \in 1..Len(out) :
         /\ out[k].val # <<>>
         /\ TokenOffset(k) + Len(out[k].val) <= Len(s)
         /\ Upper(out[k].val)
              = Upper(Slice(s, TokenOffset(k), TokenOffset(k) + Len(out[k].val)))
    /\ lpc = "scan" => Len(RawText(out)) = pos
    /\ lpc = "done" => Len(RawText(out)) = Len(s)

\* the lexer has returned unmatched text and, after it, a keyword token that
\* differs from its slice in letter case
C29_Witness ==
    /\ lpc = "done"
    /\ Len(out) = 2
    /\ out[1] = [typ |-> "ident", val |-> <<"#">>]
    /\ out[2].typ = "keyword"
    /\ out[2].val # Slice(s, 1, Len(s))
    /\ Len(RawText(out)) = Len(s)


(***************************************************************************)
(* Properties of the reload of the DB tree.                                *)
(***************************************************************************)
\* a handler that reloads the DB tree: Refresh, the choice of the catalog,
\* an import, Run, and New Test DB with a name that is not protected
ReloadsTree ==
    \/ RefreshAll
    \/ ChooseDbDir
    \/ ImportJson
    \/ RunSql
    \/ \E path \in Paths : ~IsProtected(path) /\ NewTestDb(path)

\* C30: the reload of the DB tree completes without error from every tree
\* state, also with a database node and its table node expanded, and every
\* node that was expanded and still exists is expanded again afterwards.
C30_ReloadRestoresTree ==
    [][ (apc = "ready" /\ ReloadsTree)
        => /\ reload_error' = <<>>
           /\ db_dir' = db_dir
                => /\ open_dbs \cap db_nodes' \subseteq open_dbs'
                   /\ open_tables \cap db_nodes' \subseteq open_tables' ]_vars

=============================================================================
